---- MODULE Spec2Model ----
(***************************************************************************)
(* Model of the visual-option-selection study: the trial generation and    *)
(* balancing engine (experiment.ts), the Latin-square counterbalancing,    *)
(* local persistence (storage.ts) and the session state machine of         *)
(* App.tsx.                                                                *)
(*                                                                         *)
(* JavaScript arrays are 0-based, TLA+ sequences 1-based: array index k of *)
(* the source is position k + 1 here.  JavaScript numbers are exact        *)
(* integers up to 2^53; the values of this model that exceed 31 bits (the  *)
(* per-trial seeds, the products of the generator's recurrence) are        *)
(* computed limb-wise so that no intermediate value leaves 31 bits.        *)
(***************************************************************************)
EXTENDS Integers, Sequences, FiniteSets, TLC

(***************************************************************************)
(* State                                                                   *)
(***************************************************************************)
VARIABLES
  \* a caller of generateBlockPlan
  callArgs,     \* the arguments of the latest call of generateBlockPlan
  callResult,   \* what that call returned (a BlockPlan) or threw
  phase,        \* "idle" before the first call, "returned" after a call
  firstArgs,    \* the arguments of the first call, <<>> before it
  firstResult,  \* what the first call returned
  staleCell,    \* the state cell of the generator closure the latest call left behind
  interleaved,  \* whether another call came between the first call and the latest
  \* a caller of getLatinSquareOrder over a range of participant numbers
  rangeStart,   \* the first participant number of the range
  scanned,      \* how many numbers of the range were assigned so far
  lastLabel,    \* orderToLabel of the latest order, <<>> before it
  counts,       \* the Map from label to the number of assignments of it
  \* the sample of blocks over consecutive participant numbers
  sampleStart,  \* the first participant number of the sample
  sampled,      \* how many participants were sampled so far
  doubledColorTargets,  \* the colours that were a measured target twice in a sampled block
  \* the App component in one browser tab
  mode,             \* useState StartMode: "landing" or "withdrawn"
  session,          \* useState SessionState | undefined
  resumeCandidate,  \* useState SessionState | undefined
  consentChecked,   \* useState of the consent checkbox
  visionConfirmed,  \* useState of the vision checkbox
  trialReady,       \* useState: the items of the trial accept clicks
  feedback,         \* useState: the line under the items
  clickLockRef,     \* useRef: set between a correct click and the next trial
  devEnabled,       \* useMemo: the page was opened with ?dev=1
  animationFrames,  \* the callbacks requestAnimationFrame holds, oldest first
  localStorage,     \* the item under SESSION_STORAGE_KEY, Undefined if none
  created,          \* how many sessions createSession made in this run
  misclicks,        \* how many wrong items were clicked in this run
  reloaded,         \* how many times the page was reloaded in this run
  \* the participant summary of the completion screen and of the exports
  participantSummary,  \* what buildParticipantSummary returned, <<>> before it
  \* a caller of assertBalancedTargets
  balanceTrials,  \* the TrialPlan[] it passes
  balance,        \* what the latest call returned, <<>> before it
  \* a caller of seededRandom
  randSeed,   \* the seed it passes
  randCell,   \* the state cell of the closure seededRandom returned
  randValue,  \* what the latest call of the closure returned, <<>> before it
  \* a caller of shuffle, of buildBalancedIndices or of a lookup
  drawArgs,    \* the arguments it passes, with the seed of the rand it passes
  drawArray,   \* the array it passes to shuffle, as the call leaves it
  drawResult,  \* what the call returned, <<>> before it
  drawRand     \* the state cell of the rand it passes

callVars == <<callArgs, callResult, phase, firstArgs, firstResult, staleCell, interleaved>>

orderVars == <<rangeStart, scanned, lastLabel, counts>>

sampleVars == <<sampleStart, sampled, doubledColorTargets>>

appVars == <<mode, session, resumeCandidate, consentChecked, visionConfirmed, trialReady,
            feedback, clickLockRef, devEnabled, animationFrames, localStorage,
            created, misclicks, reloaded>>

exportVars == <<participantSummary>>

balanceVars == <<balanceTrials, balance>>

seedVars == <<randSeed, randCell, randValue>>

drawVars == <<drawArgs, drawArray, drawResult, drawRand>>

vars ==
  <<callVars, orderVars, sampleVars, appVars, exportVars, balanceVars, seedVars, drawVars>>

\* JavaScript's undefined, for a session that is not there.
Undefined == <<>>

\* A generator cell nothing has drawn from.
NoCell == [state |-> 0, draws |-> 0]

\* The parts of the state a specification does not use.
CallIdle ==
  /\ callArgs = <<>>
  /\ callResult = <<>>
  /\ phase = "idle"
  /\ firstArgs = <<>>
  /\ firstResult = <<>>
  /\ staleCell = NoCell
  /\ interleaved = FALSE

OrderIdle ==
  /\ rangeStart = 0
  /\ scanned = 0
  /\ lastLabel = <<>>
  /\ counts = <<>>

SampleIdle ==
  /\ sampleStart = 0
  /\ sampled = 0
  /\ doubledColorTargets = {}

ExportIdle == participantSummary = <<>>

BalanceIdle ==
  /\ balanceTrials = <<>>
  /\ balance = <<>>

DrawIdle ==
  /\ drawArgs = <<>>
  /\ drawArray = <<>>
  /\ drawResult = <<>>
  /\ drawRand = NoCell

SeedIdle ==
  /\ randSeed = [hi |-> 0, lo |-> 0]
  /\ randCell = Undefined
  /\ randValue = <<>>

AppIdle ==
  /\ mode = "landing"
  /\ session = Undefined
  /\ resumeCandidate = Undefined
  /\ consentChecked = FALSE
  /\ visionConfirmed = FALSE
  /\ trialReady = FALSE
  /\ feedback = ""
  /\ clickLockRef = FALSE
  /\ devEnabled = FALSE
  /\ animationFrames = <<>>
  /\ localStorage = Undefined
  /\ created = 0
  /\ misclicks = 0
  /\ reloaded = 0

(***************************************************************************)
(* Constants of experiment.ts                                              *)
(***************************************************************************)
CONDITIONS == <<"color", "shape", "combined">>

\* Faulty variant of LATIN_SQUARE_3: the third row repeats the second.
LATIN_SQUARE_3_RepeatedRow ==
  << <<"color", "shape", "combined">>,
     <<"shape", "combined", "color">>,
     <<"shape", "combined", "color">> >>

LATIN_SQUARE_3 ==
  << <<"color", "shape", "combined">>,
     <<"shape", "combined", "color">>,
     <<"combined", "color", "shape">> >>

COLORS == <<"red", "blue", "green", "orange", "purple", "yellow", "cyan", "magenta">>

SHAPES == <<"circle", "triangle", "square", "diamond", "star", "pentagon", "hexagon", "cross">>

DEFAULT_PRACTICE_TRIALS == 3

DEFAULT_MEASURED_TRIALS == 10

\* Modulus and multiplier of the Park-Miller recurrence of seededRandom.
PrngModulus == 2147483647

PrngMultiplier == 16807

\* The per-trial seed is participantNumber * 100000 + ...: the scale of its
\* high limb.
TrialSeedScale == 100000

(***************************************************************************)
(* Arithmetic helpers                                                      *)
(***************************************************************************)
\* JavaScript's %: the sign of the result is the sign of the dividend.
JsRem(a, b) == IF a >= 0 THEN a % b ELSE -((-a) % b)

\* (a + b) % m for 0 <= a, b < m, with no intermediate value above m.
AddMod(a, b, m) == IF a >= m - b THEN a - (m - b) ELSE a + b

\* Op(v) with v evaluated before Op is applied: JavaScript evaluates an
\* argument before the call, and a value assigned to a const once.
ByValue(v, Op(_)) == IF v = v THEN Op(v) ELSE Op(v)

\* (a * b) % m for 0 <= a < m and 0 <= b <= 1000 < m \div 1000: the product
\* is formed as b * (a % q) - r * (a / q) with q = m / b and r = m % b, which
\* is the same residue and stays within 31 bits.
MulModSmall(a, b, m) ==
  IF b = 0 THEN 0
  ELSE LET q == m \div b
           r == m % b
           t == b * (a % q) - r * (a \div q)
       IN IF t >= 0 THEN t ELSE t + m

RECURSIVE MulMod(_, _, _)
\* (a * b) % m for 0 <= a < m and b >= 0, by the digits of b to the base 1000.
MulMod(a, b, m) ==
  IF b <= 1000 THEN MulModSmall(a, b, m)
  ELSE AddMod(MulModSmall(MulMod(a, b \div 1000, m), 1000, m),
              MulModSmall(a, b % 1000, m), m)

\* A JavaScript number hi * TrialSeedScale + lo (hi, lo >= 0) kept as two limbs.
Wide(hi, lo) == [hi |-> hi, lo |-> lo]

\* w % PrngModulus for a two-limb number w.
WideRem(w) ==
  AddMod(MulMod(w.hi % PrngModulus, TrialSeedScale, PrngModulus),
         w.lo % PrngModulus, PrngModulus)

(***************************************************************************)
(* seededRandom: a generator is the closure's state cell, with the number  *)
(* of values drawn from it so far.                                         *)
(***************************************************************************)
\* Faulty variant of seededRandom: the state cell is shared by all closures, and a
\* call that finds it in use continues from it.
seededRandomShared(seed) ==
  LET state == WideRem(seed)
  IN IF staleCell.draws > 0
     THEN [state |-> staleCell.state, draws |-> 0]
     ELSE [state |-> IF state <= 0 THEN state + 2147483646 ELSE state, draws |-> 0]

\* seed % 2147483647.  A negative seed has the limbs hi, lo <= 0, and
\* JavaScript's % gives the remainder the sign of the dividend.
seedRem(seed) ==
  IF seed.hi < 0 \/ seed.lo < 0 THEN -WideRem(Wide(-seed.hi, -seed.lo)) ELSE WideRem(seed)

seededRandom(seed) ==
  LET state == seedRem(seed)
  IN [state |-> IF state <= 0 THEN state + 2147483646 ELSE state, draws |-> 0]

\* state = (state * 16807) % 2147483647, for 0 <= state < 2147483647.  The
\* product is formed as 16807 * (state % q) - r * (state / q) with
\* q = 2147483647 / 16807 and r = 2147483647 % 16807, which is the same
\* residue and stays within 31 bits; it is 0 for the state 0 only.
nextState(state) ==
  LET q == PrngModulus \div PrngMultiplier
      r == PrngModulus % PrngMultiplier
      t == PrngMultiplier * (state % q) - r * (state \div q)
  IN IF t >= 0 THEN t ELSE t + PrngModulus

\* One call rand(): the cell after the call.
randStep(rand) == [state |-> nextState(rand.state), draws |-> rand.draws + 1]

\* Math.floor(value * n) for the value (state - 1) / 2147483646 the call that
\* left the cell in `state` returned: the largest j with
\* j * 2147483646 <= (state - 1) * n.
floorScaled(state, n) ==
  LET d  == PrngModulus - 1
      qd == d \div n
      rd == d % n
  IN Cardinality({j \in 1..(n - 1) : j * qd + (j * rd + n - 1) \div n <= state - 1})

(***************************************************************************)
(* shuffle                                                                 *)
(***************************************************************************)
swap(arr, i, j) == [arr EXCEPT ![i] = arr[j], ![j] = arr[i]]

RECURSIVE shuffleFromToZero(_, _, _)
\* Faulty variant of shuffleFrom: the loop runs while i >= 0, with one more
\* draw for index 0.
shuffleFromToZero(next, rand, i) ==
  IF i <= 0 THEN [array |-> next, rand |-> rand]
  ELSE LET r == randStep(rand)
           j == floorScaled(r.state, i)
       IN shuffleFromToZero(swap(next, i, j + 1), r, i - 1)

RECURSIVE shuffleFrom(_, _, _)
\* The loop of shuffle at source index i - 1 (position i), down to index 1.
\* The position never exceeds the array's length and the draw count is
\* never negative: the array and the generator are values before each step.
shuffleFrom(next, rand, i) ==
  IF i <= 1 \/ Len(next) < i \/ rand.draws < 0 THEN [array |-> next, rand |-> rand]
  ELSE LET r == randStep(rand)
           j == floorScaled(r.state, i)
       IN shuffleFrom(swap(next, i, j + 1), r, i - 1)

shuffle(array, rand) == shuffleFrom(array, rand, Len(array))

\* Faulty variant of shuffleArgument: the swaps are made in the array passed.
shuffleArgumentInPlace(array, rand) == shuffle(array, rand).array

\* const next = [...array]: the swaps are made in the copy, and the array
\* passed is after the call what it was before.
shuffleArgument(array, rand) == array

(***************************************************************************)
(* buildBalancedIndices                                                    *)
(***************************************************************************)
\* Array.from({ length }, (_, i) => i): the indices 0 .. length - 1.
indexRange(length) == <<>> \o [index \in 1..length |-> index - 1]

\* The first loop of buildBalancedIndices: every index 0 .. length - 1,
\* baseRepeats times each, in index order.
baseIndices(length, baseRepeats) ==
  <<>> \o [k \in 1..(length * baseRepeats) |-> (k - 1) \div baseRepeats]

\* Faulty variant of buildBalancedIndices: the shuffled extras are pushed without
\* .slice(0, remainder).
buildBalancedIndicesNoSlice(length, count, rand) ==
  IF count <= 0 \/ length <= 0 THEN [array |-> <<>>, rand |-> rand]
  ELSE LET baseRepeats == count \div length
           remainder == count % length
           base == baseIndices(length, baseRepeats)
           extra == IF remainder > 0
                    THEN shuffle(indexRange(length), rand)
                    ELSE [array |-> <<>>, rand |-> rand]
           indices == base \o extra.array
       IN shuffle(indices, extra.rand)

\* Faulty variant of buildBalancedIndices: the extras are the first `remainder`
\* categories, not shuffled ones.
buildBalancedIndicesFixedExtras(length, count, rand) ==
  IF count <= 0 \/ length <= 0 THEN [array |-> <<>>, rand |-> rand]
  ELSE LET baseRepeats == count \div length
           remainder == count % length
           base == baseIndices(length, baseRepeats)
           indices == base \o SubSeq(indexRange(length), 1, remainder)
       IN shuffle(indices, rand)

\* Faulty variant of buildBalancedIndices: the extras are `remainder` copies
\* of the first shuffled index.
buildBalancedIndicesOneExtra(length, count, rand) ==
  IF count <= 0 \/ length <= 0 THEN [array |-> <<>>, rand |-> rand]
  ELSE LET baseRepeats == count \div length
           remainder == count % length
           base == baseIndices(length, baseRepeats)
           extra == IF remainder > 0
                    THEN shuffle(indexRange(length), rand)
                    ELSE [array |-> <<>>, rand |-> rand]
           indices == base \o [k \in 1..remainder |-> extra.array[1]]
       IN shuffle(indices, extra.rand)

\* Faulty variant of buildBalancedIndices: the early return is taken for
\* count <= 0 only, and zero categories are shuffled with a draw.
buildBalancedIndicesCountOnly(length, count, rand) ==
  IF count <= 0 THEN [array |-> <<>>, rand |-> rand]
  ELSE IF length <= 0 THEN [array |-> <<>>, rand |-> randStep(rand)]
  ELSE LET baseRepeats == count \div length
           remainder == count % length
           base == baseIndices(length, baseRepeats)
           extra == IF remainder > 0
                    THEN shuffle(indexRange(length), rand)
                    ELSE [array |-> <<>>, rand |-> rand]
           indices == base \o SubSeq(extra.array, 1, remainder)
       IN shuffle(indices, extra.rand)

buildBalancedIndices(length, count, rand) ==
  IF count <= 0 \/ length <= 0 THEN [array |-> <<>>, rand |-> rand]
  ELSE LET baseRepeats == count \div length
           remainder == count % length
           base == baseIndices(length, baseRepeats)
           extra == IF remainder > 0
                    THEN shuffle(indexRange(length), rand)
                    ELSE [array |-> <<>>, rand |-> rand]
           indices == base \o SubSeq(extra.array, 1, remainder)
       IN shuffle(indices, extra.rand)

(***************************************************************************)
(* Trial-item synthesis                                                    *)
(***************************************************************************)
\* Faulty variant of itemId: the ordinal without the + 1.
itemIdZeroBased(ordinal) == <<"item_", ordinal - 1>>

\* `item_${index + 1}`: the prefix and the ordinal.
itemId(ordinal) == <<"item_", ordinal>>

buildItemsForColorOnlyTrial(trialSeed) ==
  LET rand == seededRandom(trialSeed)
      order == shuffle(indexRange(Len(COLORS)), rand).array
  IN <<>> \o [index \in 1..Len(order) |->
        [id |-> itemId(index), colorName |-> COLORS[order[index] + 1], shapeName |-> "circle"]]

\* Faulty variant of buildItemsForShapeOnlyTrial: the items take the colours
\* in the order of the shapes.
buildItemsForShapeOnlyTrialColored(trialSeed) ==
  LET rand == seededRandom(trialSeed)
      order == shuffle(indexRange(Len(SHAPES)), rand).array
  IN <<>> \o [index \in 1..Len(order) |->
        [id |-> itemId(index), colorName |-> COLORS[order[index] + 1],
         shapeName |-> SHAPES[order[index] + 1]]]

buildItemsForShapeOnlyTrial(trialSeed) ==
  LET rand == seededRandom(trialSeed)
      order == shuffle(indexRange(Len(SHAPES)), rand).array
  IN <<>> \o [index \in 1..Len(order) |->
        [id |-> itemId(index), colorName |-> "black", shapeName |-> SHAPES[order[index] + 1]]]

\* array.filter((x) => x !== name)
without(array, name) == SelectSeq(array, LAMBDA entry : entry # name)

\* Faulty variant of buildCombinedItemsForTarget: the shapes of the other
\* items are seven of all the shapes, the target shape among them.
buildCombinedItemsForTargetAnyShape(trialSeed, targetColor, targetShape) ==
  LET rand == seededRandom(trialSeed)
      remainingColors == shuffle(without(COLORS, targetColor), rand)
      remainingShapes == shuffle(SHAPES, remainingColors.rand)
      pairs == <<[colorName |-> targetColor, shapeName |-> targetShape]>> \o
               [i \in 1..7 |-> [colorName |-> remainingColors.array[i],
                                shapeName |-> remainingShapes.array[i]]]
      orderedPairs == shuffle(pairs, remainingShapes.rand).array
  IN <<>> \o [index \in 1..Len(orderedPairs) |->
        [id |-> itemId(index),
         colorName |-> orderedPairs[index].colorName,
         shapeName |-> orderedPairs[index].shapeName]]

buildCombinedItemsForTarget(trialSeed, targetColor, targetShape) ==
  LET rand == seededRandom(trialSeed)
      remainingColors == shuffle(without(COLORS, targetColor), rand)
      remainingShapes == shuffle(without(SHAPES, targetShape), remainingColors.rand)
      pairs == <<[colorName |-> targetColor, shapeName |-> targetShape]>> \o
               [i \in 1..7 |-> [colorName |-> remainingColors.array[i],
                                shapeName |-> remainingShapes.array[i]]]
      orderedPairs == shuffle(pairs, remainingShapes.rand).array
  IN <<>> \o [index \in 1..Len(orderedPairs) |->
        [id |-> itemId(index),
         colorName |-> orderedPairs[index].colorName,
         shapeName |-> orderedPairs[index].shapeName]]

\* Whether an item meets the target criterion of the condition.
matchesTarget(item, targetColor, targetShape, condition) ==
  IF condition = "color" THEN item.colorName = targetColor
  ELSE IF condition = "shape" THEN item.shapeName = targetShape
  ELSE item.colorName = targetColor /\ item.shapeName = targetShape

\* The value a failed lookup throws.
thrown(message) == [error |-> message]

isThrown(value) == DOMAIN value = {"error"}

\* Faulty variant of findItemForTarget: the lookup by colour in every condition.
findItemForTargetByColor(items, targetColor, targetShape, condition) ==
  LET hits == {i \in 1..Len(items) : items[i].colorName = targetColor}
  IN IF hits = {} THEN thrown("No matching color target found")
     ELSE items[CHOOSE i \in hits : \A k \in hits : i <= k]

\* Faulty variant of findItemForTarget: the first item stands in when no item
\* matches.
findItemForTargetOrFirst(items, targetColor, targetShape, condition) ==
  LET hits == {i \in 1..Len(items) : matchesTarget(items[i], targetColor, targetShape, condition)}
  IN IF hits = {}
     THEN (IF Len(items) > 0 THEN items[1] ELSE thrown("No items"))
     ELSE items[CHOOSE i \in hits : \A k \in hits : i <= k]

\* items.find(...): the first matching item, or the thrown Error.
findItemForTarget(items, targetColor, targetShape, condition) ==
  LET hits == {i \in 1..Len(items) : matchesTarget(items[i], targetColor, targetShape, condition)}
  IN IF hits = {}
     THEN thrown(IF condition = "color" THEN "No matching color target found"
                 ELSE IF condition = "shape" THEN "No matching shape target found"
                 ELSE "No matching combined target found")
     ELSE items[CHOOSE i \in hits : \A k \in hits : i <= k]

(***************************************************************************)
(* generateBlockPlan                                                       *)
(***************************************************************************)
blockSeed(args) ==
  Wide(0, args.participantNumber * 1000 + args.blockIndex * 77 + args.blockOrder * 19)

\* The seed of the trial at source index t: participantNumber * 100000 +
\* blockIndex * 1000 + t + 1.
trialSeed(args, t) == Wide(args.participantNumber, args.blockIndex * 1000 + t + 1)

\* Faulty variant of balancedTargets: the two colour sequences are drawn
\* before the two shape sequences.
balancedTargetsColorsFirst(args) ==
  LET rand == seededRandom(blockSeed(args))
      practiceColorIndices == buildBalancedIndices(Len(COLORS), args.practiceTrials, rand)
      measuredColorIndices == buildBalancedIndices(Len(COLORS), args.measuredTrials, practiceColorIndices.rand)
      practiceShapeIndices == buildBalancedIndices(Len(SHAPES), args.practiceTrials, measuredColorIndices.rand)
      measuredShapeIndices == buildBalancedIndices(Len(SHAPES), args.measuredTrials, practiceShapeIndices.rand)
  IN [balancedColorIndices |-> practiceColorIndices.array \o measuredColorIndices.array,
      balancedShapeIndices |-> practiceShapeIndices.array \o measuredShapeIndices.array,
      rand |-> measuredShapeIndices.rand]

\* The four balanced index sequences, drawn in this order from the one
\* generator seeded with the block seed.
balancedTargets(args) ==
  ByValue(buildBalancedIndices(Len(COLORS), args.practiceTrials, seededRandom(blockSeed(args))),
          LAMBDA practiceColorIndices :
  ByValue(buildBalancedIndices(Len(SHAPES), args.practiceTrials, practiceColorIndices.rand),
          LAMBDA practiceShapeIndices :
  ByValue(buildBalancedIndices(Len(COLORS), args.measuredTrials, practiceShapeIndices.rand),
          LAMBDA measuredColorIndices :
  ByValue(buildBalancedIndices(Len(SHAPES), args.measuredTrials, measuredColorIndices.rand),
          LAMBDA measuredShapeIndices :
    [balancedColorIndices |-> practiceColorIndices.array \o measuredColorIndices.array,
     balancedShapeIndices |-> practiceShapeIndices.array \o measuredShapeIndices.array,
     rand |-> measuredShapeIndices.rand]))))

\* Faulty variant of isPracticeIndex: <= for <.
isPracticeIndexInclusive(t, practiceTrials) == t <= practiceTrials

\* isPractice: t < practiceTrials, for the trial at source index t.
isPracticeIndex(t, practiceTrials) == t < practiceTrials

\* `b${blockIndex}_t${t + 1}`
trialId(blockIndex, ordinal) == <<"b", blockIndex, "_t", ordinal>>

\* Faulty variant of pushTrial: the prompt of a combined trial names the
\* colour only.
pushTrialColorPrompt(args, t, targetColor, targetShape, items) ==
  LET correctItem == findItemForTarget(items, targetColor, targetShape, args.condition)
      promptText == IF args.condition = "shape" THEN <<"Select the", targetShape>>
                    ELSE <<"Select the", targetColor, "circle">>
  IN IF isThrown(correctItem) THEN correctItem
     ELSE [id |-> trialId(args.blockIndex, t + 1),
           blockIndex |-> args.blockIndex,
           blockOrder |-> args.blockOrder,
           condition |-> args.condition,
           trialIndexInBlock |-> t + 1,
           isPractice |-> isPracticeIndex(t, args.practiceTrials),
           targetType |-> args.condition,
           targetColor |-> targetColor,
           targetShape |-> targetShape,
           promptText |-> promptText,
           correctItemId |-> correctItem.id,
           items |-> items]

\* The trials.push of the loop of generateBlockPlan for source index t, once
\* the targets and the items are known: the trial, or the Error
\* findItemForTarget threw.
pushTrial(args, t, targetColor, targetShape, items) ==
  LET correctItem == findItemForTarget(items, targetColor, targetShape, args.condition)
      promptText == IF args.condition = "color" THEN <<"Select the", targetColor, "circle">>
                    ELSE IF args.condition = "shape" THEN <<"Select the", targetShape>>
                    ELSE <<"Select the", targetColor, targetShape>>
  IN IF isThrown(correctItem) THEN correctItem
     ELSE [id |-> trialId(args.blockIndex, t + 1),
           blockIndex |-> args.blockIndex,
           blockOrder |-> args.blockOrder,
           condition |-> args.condition,
           trialIndexInBlock |-> t + 1,
           isPractice |-> isPracticeIndex(t, args.practiceTrials),
           targetType |-> args.condition,
           targetColor |-> targetColor,
           targetShape |-> targetShape,
           promptText |-> promptText,
           correctItemId |-> correctItem.id,
           items |-> items]

\* The body of the loop of generateBlockPlan for source index t.
buildTrial(args, targets, t) ==
  LET targetColor == IF args.condition = "shape" THEN "black"
                     ELSE COLORS[targets.balancedColorIndices[t + 1] + 1]
      targetShape == IF args.condition = "color" THEN "circle"
                     ELSE SHAPES[targets.balancedShapeIndices[t + 1] + 1]
  IN ByValue(IF args.condition = "color" THEN buildItemsForColorOnlyTrial(trialSeed(args, t))
             ELSE IF args.condition = "shape" THEN buildItemsForShapeOnlyTrial(trialSeed(args, t))
             ELSE buildCombinedItemsForTarget(trialSeed(args, t), targetColor, targetShape),
             LAMBDA items : pushTrial(args, t, targetColor, targetShape, items))

\* The number of elements of a sequence that satisfy a trial predicate.
countPractice(trials) == Cardinality({i \in 1..Len(trials) : trials[i].isPractice})

countMeasured(trials) == Cardinality({i \in 1..Len(trials) : ~trials[i].isPractice})

\* args: participantNumber, blockIndex, blockOrder, condition, practiceTrials,
\* measuredTrials (the two defaults already applied by the caller's record).
\* The loop of generateBlockPlan: what each index pushes or throws.
buildTrials(args, targets) ==
  <<>> \o [k \in 1..(args.practiceTrials + args.measuredTrials) |-> buildTrial(args, targets, k - 1)]

\* What generateBlockPlan returns for the trials built, or the first Error thrown.
returnPlan(args, built) ==
  LET failed == {k \in 1..Len(built) : isThrown(built[k])}
  IN IF failed # {}
     THEN built[CHOOSE k \in failed : \A l \in failed : k <= l]
     ELSE [blockIndex |-> args.blockIndex,
           blockOrder |-> args.blockOrder,
           condition |-> args.condition,
           practiceTrials |-> countPractice(built),
           measuredTrials |-> countMeasured(built),
           trials |-> built]

generateBlockPlan(args) ==
  ByValue(balancedTargets(args), LAMBDA targets : returnPlan(args, buildTrials(args, targets)))

\* The optional arguments: practiceTrials ?? 3, measuredTrials ?? 10.
planArgs(participantNumber, blockIndex, blockOrder, condition, practiceTrials, measuredTrials) ==
  [participantNumber |-> participantNumber,
   blockIndex |-> blockIndex,
   blockOrder |-> blockOrder,
   condition |-> condition,
   practiceTrials |-> practiceTrials,
   measuredTrials |-> measuredTrials]

defaultPlanArgs(participantNumber, blockIndex, blockOrder, condition) ==
  planArgs(participantNumber, blockIndex, blockOrder, condition,
           DEFAULT_PRACTICE_TRIALS, DEFAULT_MEASURED_TRIALS)

(***************************************************************************)
(* Counterbalancing                                                        *)
(***************************************************************************)
\* Faulty variant of getLatinSquareOrder: the row after the one the remainder names.
getLatinSquareOrderShifted(participantNumber) ==
  LATIN_SQUARE_3[JsRem(participantNumber + 1, 3) + 1]

\* Faulty variant of getLatinSquareOrder: rows assigned in runs of three numbers.
getLatinSquareOrderByThrees(participantNumber) ==
  LATIN_SQUARE_3[JsRem(participantNumber \div 3, 3) + 1]

getLatinSquareOrder(participantNumber) == LATIN_SQUARE_3[JsRem(participantNumber, 3) + 1]

conditionLetter(condition) ==
  IF condition = "color" THEN "A" ELSE IF condition = "shape" THEN "B" ELSE "C"

\* order.map(letter).join(''): the letters in order.
orderToLabel(order) == [i \in 1..Len(order) |-> conditionLetter(order[i])]

(***************************************************************************)
(* Bounds of the checked inputs                                            *)
(***************************************************************************)
\* Participant numbers: the ends of createParticipantNumber's range, the
\* numbers the tests use and 0, each with the next MaxOffset numbers.
ParticipantBases == {0, 100000, 123456, 222222, 654321, 999990}

MaxOffset == 2

ParticipantNumbers == UNION {{b + k : k \in 0..MaxOffset} : b \in ParticipantBases}

MaxBlockIndex == 2

\* practiceTrials and measuredTrials of a call: the defaults, the counts of
\* the tests, and the small counts 0 .. MaxSmallCount.
MaxSmallCount == 1

TrialCounts ==
  {<<DEFAULT_PRACTICE_TRIALS, DEFAULT_MEASURED_TRIALS>>, <<3, 16>>, <<0, 8>>, <<9, 7>>}
  \cup {<<p, m>> : p \in 0..MaxSmallCount, m \in 0..MaxSmallCount}

PlanInputs ==
  {planArgs(n, b, o, CONDITIONS[c], pm[1], pm[2]) :
     n \in ParticipantNumbers, b \in 0..MaxBlockIndex, o \in {1, 3},
     c \in 1..3, pm \in TrialCounts}

(***************************************************************************)
(* SpecPlan: one call of generateBlockPlan on any of the bounded inputs    *)
(***************************************************************************)
PlanInit ==
  /\ callArgs \in PlanInputs
  /\ callResult = <<>>
  /\ phase = "idle"
  /\ firstArgs = <<>>
  /\ firstResult = <<>>
  /\ staleCell = NoCell
  /\ interleaved = FALSE
  /\ OrderIdle
  /\ SampleIdle
  /\ AppIdle
  /\ ExportIdle
  /\ BalanceIdle
  /\ SeedIdle
  /\ DrawIdle

Generate ==
  /\ phase = "idle"
  /\ callResult' = generateBlockPlan(callArgs)
  /\ phase' = "returned"
  /\ staleCell' = balancedTargets(callArgs).rand
  /\ UNCHANGED <<callArgs, firstArgs, firstResult, interleaved>>
  /\ UNCHANGED <<orderVars, sampleVars, appVars, exportVars, balanceVars, seedVars, drawVars>>

PlanNext == Generate

SpecPlan == PlanInit /\ [][PlanNext]_vars

(***************************************************************************)
(* SpecCalls: a caller that calls generateBlockPlan again and again, with  *)
(* other uses of seededRandom and shuffle in between                       *)
(***************************************************************************)
MaxCallParticipant == 1

CallInputs ==
  {defaultPlanArgs(123456 + k, 0, 1, CONDITIONS[c]) : k \in 0..MaxCallParticipant, c \in 1..3}

\* The seeds of the generators the caller makes for its own shuffles.
OtherSeeds == {Wide(0, 1), Wide(0, 123456019)}

CallsInit ==
  CallIdle /\ OrderIdle /\ SampleIdle /\ AppIdle /\ ExportIdle /\ BalanceIdle /\ SeedIdle /\ DrawIdle

CallGenerate(a) ==
  /\ callArgs' = a
  /\ callResult' = generateBlockPlan(a)
  /\ phase' = "returned"
  /\ firstArgs' = IF phase = "idle" THEN a ELSE firstArgs
  /\ firstResult' = IF phase = "idle" THEN generateBlockPlan(a) ELSE firstResult
  /\ staleCell' = balancedTargets(a).rand
  /\ interleaved' = (phase = "returned" /\ (interleaved \/ a # firstArgs))
  /\ UNCHANGED <<orderVars, sampleVars, appVars, exportVars, balanceVars, seedVars, drawVars>>

\* shuffle([0, 1, 2], seededRandom(seed)) by the caller.
CallShuffle(seed) ==
  /\ staleCell' = shuffle(indexRange(3), seededRandom(seed)).rand
  /\ interleaved' = (phase = "returned")
  /\ UNCHANGED <<callArgs, callResult, phase, firstArgs, firstResult>>
  /\ UNCHANGED <<orderVars, sampleVars, appVars, exportVars, balanceVars, seedVars, drawVars>>

CallsNext ==
  \/ \E a \in CallInputs : CallGenerate(a)
  \/ \E seed \in OtherSeeds : CallShuffle(seed)

SpecCalls == CallsInit /\ [][CallsNext]_vars

(***************************************************************************)
(* SpecOrder: getLatinSquareOrder over a range of consecutive participant  *)
(* numbers, counted by label as counterbalancing.test.ts counts them       *)
(***************************************************************************)
MaxRangeStart == 3

RangeStarts == (0..MaxRangeStart) \cup {100000 + k : k \in 0..MaxRangeStart}

\* The length of the range of the test.
RangeLength == 300

\* map.get(key) ?? 0
mapGet(map, key) == IF key \in DOMAIN map THEN map[key] ELSE 0

\* map.set(key, value)
mapSet(map, key, value) ==
  [k \in DOMAIN map \cup {key} |-> IF k = key THEN value ELSE map[k]]

OrderInit ==
  /\ rangeStart \in RangeStarts
  /\ scanned = 0
  /\ lastLabel = <<>>
  /\ counts = <<>>
  /\ CallIdle
  /\ SampleIdle
  /\ AppIdle
  /\ ExportIdle
  /\ BalanceIdle
  /\ SeedIdle
  /\ DrawIdle

AssignNext ==
  /\ scanned < RangeLength
  /\ LET label == orderToLabel(getLatinSquareOrder(rangeStart + scanned))
     IN /\ lastLabel' = label
        /\ counts' = mapSet(counts, label, mapGet(counts, label) + 1)
  /\ scanned' = scanned + 1
  /\ UNCHANGED rangeStart
  /\ UNCHANGED <<callVars, sampleVars, appVars, exportVars, balanceVars, seedVars, drawVars>>

OrderNext == AssignNext

SpecOrder == OrderInit /\ [][OrderNext]_vars

(***************************************************************************)
(* SpecSample: the colour-only first block of 200 consecutive participant  *)
(* numbers, collecting the colours that are a measured target twice        *)
(***************************************************************************)
SampleSize == 200

MaxSampleBlock == 1

SampleStarts == {300000} \cup {100000 + 1000 * k : k \in 0..MaxSampleBlock}

\* The number of measured trials of a plan with the target colour `color`.
measuredColorCount(plan, color) ==
  Cardinality({k \in 1..Len(plan.trials) :
                 ~plan.trials[k].isPractice /\ plan.trials[k].targetColor = color})

SampleInit ==
  /\ sampleStart \in SampleStarts
  /\ sampled = 0
  /\ doubledColorTargets = {}
  /\ CallIdle
  /\ OrderIdle
  /\ AppIdle
  /\ ExportIdle
  /\ BalanceIdle
  /\ SeedIdle
  /\ DrawIdle

SampleBlock ==
  /\ sampled < SampleSize
  /\ LET plan == generateBlockPlan(planArgs(sampleStart + sampled, 0, 1, "color", 3, 10))
     IN doubledColorTargets' = doubledColorTargets \cup
          {COLORS[i] : i \in {i \in 1..Len(COLORS) : measuredColorCount(plan, COLORS[i]) = 2}}
  /\ sampled' = sampled + 1
  /\ UNCHANGED sampleStart
  /\ UNCHANGED <<callVars, orderVars, appVars, exportVars, balanceVars, seedVars, drawVars>>

SampleNext == SampleBlock

SpecSample == SampleInit /\ [][SampleNext]_vars

(***************************************************************************)
(* storage.ts.  A session is plain data (numbers, strings, booleans,       *)
(* arrays, objects).  JSON.stringify writes every property but those whose  *)
(* value is undefined, and JSON.parse gives back an object with the        *)
(* properties written; the envelope's savedAtIso is a clock reading and     *)
(* left out.  A field of the model with the value "undefined" stands for a *)
(* property that reads as undefined, absent or not.                        *)
(***************************************************************************)
\* The properties of SessionState that may read as undefined.
OptionalProperties == {"demographics", "completedAtIso"}

\* JSON.stringify(session): the properties with a value, by name.
jsonStringify(state) ==
  [key \in {k \in DOMAIN state : ~(k \in OptionalProperties /\ state[k] = "undefined")} |->
     state[key]] @@ <<>>

\* JSON.parse(raw) as a SessionState: the properties the text has; an
\* optional property it does not have reads as undefined.
jsonParse(text) == text @@ [key \in OptionalProperties |-> "undefined"]

\* Faulty variant of saveSession: the error count of the current trial is
\* written as 0.
saveSessionWithoutErrors(state) ==
  [session |-> jsonStringify([state EXCEPT !.currentTrialErrors = 0])]

\* The item saveSession writes.
saveSession(state) == [session |-> jsonStringify(state)]

\* What loadSession returns for the item stored.
loadSession(item) ==
  IF item = Undefined THEN Undefined
  ELSE IF item.session = Undefined THEN Undefined
  ELSE jsonParse(item.session)

\* The item after clearSession.
clearSession == Undefined

(***************************************************************************)
(* App.tsx: the session record.  Clock readings (timestamp_iso,            *)
(* reaction_time_ms, prompt_onset_iso, response_time_iso), the free text    *)
(* studyOperator, the screen size and the form contents (demographics,      *)
(* Likert ratings stay at their defaults) are left out.                    *)
(***************************************************************************)
SESSION_VERSION == 1

buildParticipantId(participantNumber) == <<"P-", participantNumber>>

\* The numbers createParticipantNumber may return that the model draws.
MaxAppParticipant == 0

AppParticipants == {100000 + k : k \in 0..MaxAppParticipant}

\* Faulty variant of createSession: without an assignedOrder argument the order
\* is the first row of the square, whatever the participant number.
createSessionFirstRow(args, drawn) ==
  LET participantNumber == IF "participantNumber" \in DOMAIN args
                           THEN args.participantNumber ELSE drawn
      assignedOrder == IF "assignedOrder" \in DOMAIN args
                       THEN args.assignedOrder ELSE LATIN_SQUARE_3[1]
      blocks == <<>> \o [b \in 1..Len(assignedOrder) |->
                           generateBlockPlan(defaultPlanArgs(participantNumber, b - 1, b,
                                                             assignedOrder[b]))]
  IN [version |-> SESSION_VERSION,
      participantId |-> buildParticipantId(participantNumber),
      participantNumber |-> participantNumber,
      assignedOrder |-> assignedOrder,
      stage |-> IF "stage" \in DOMAIN args THEN args.stage ELSE "consent",
      consentGiven |-> IF "consentGiven" \in DOMAIN args THEN args.consentGiven ELSE FALSE,
      demographics |-> IF "demographics" \in DOMAIN args THEN args.demographics ELSE "undefined",
      blocks |-> blocks,
      currentBlockIndex |-> 0,
      currentTrialIndex |-> 0,
      trialSummaries |-> <<>>,
      rawEvents |-> <<[participant_id |-> buildParticipantId(participantNumber),
                       event_type |-> "session_started",
                       payload |-> [assigned_order |-> orderToLabel(assignedOrder)]]>>,
      blockLikerts |-> <<>>,
      currentTrialErrors |-> 0,
      completedAtIso |-> "undefined"]

\* args holds the optional arguments the caller passes; drawn is what
\* createParticipantNumber returns when participantNumber is not passed.
createSession(args, drawn) ==
  LET participantNumber == IF "participantNumber" \in DOMAIN args
                           THEN args.participantNumber ELSE drawn
      assignedOrder == IF "assignedOrder" \in DOMAIN args
                       THEN args.assignedOrder ELSE getLatinSquareOrder(participantNumber)
      blocks == <<>> \o [b \in 1..Len(assignedOrder) |->
                           generateBlockPlan(defaultPlanArgs(participantNumber, b - 1, b,
                                                             assignedOrder[b]))]
  IN [version |-> SESSION_VERSION,
      participantId |-> buildParticipantId(participantNumber),
      participantNumber |-> participantNumber,
      assignedOrder |-> assignedOrder,
      stage |-> IF "stage" \in DOMAIN args THEN args.stage ELSE "consent",
      consentGiven |-> IF "consentGiven" \in DOMAIN args THEN args.consentGiven ELSE FALSE,
      demographics |-> IF "demographics" \in DOMAIN args THEN args.demographics ELSE "undefined",
      blocks |-> blocks,
      currentBlockIndex |-> 0,
      currentTrialIndex |-> 0,
      trialSummaries |-> <<>>,
      rawEvents |-> <<[participant_id |-> buildParticipantId(participantNumber),
                       event_type |-> "session_started",
                       payload |-> [assigned_order |-> orderToLabel(assignedOrder)]]>>,
      blockLikerts |-> <<>>,
      currentTrialErrors |-> 0,
      completedAtIso |-> "undefined"]

defaultDemographics == "default"

\* const currentBlock, const currentTrial of a render with this session
currentBlockOf(state) ==
  IF state = Undefined THEN Undefined
  ELSE IF state.currentBlockIndex + 1 \in DOMAIN state.blocks
       THEN state.blocks[state.currentBlockIndex + 1] ELSE Undefined

currentTrialOf(state) ==
  LET block == currentBlockOf(state)
  IN IF block = Undefined THEN Undefined
     ELSE IF state.currentTrialIndex + 1 \in DOMAIN block.trials
          THEN block.trials[state.currentTrialIndex + 1] ELSE Undefined

\* Faulty variant of appendRawEvent: the event is not appended.
appendRawEventDropped(prev, event) == prev

\* setSession((prev) => ({ ...prev, rawEvents: [...prev.rawEvents, event] }))
appendRawEvent(prev, event) ==
  IF prev = Undefined THEN prev
  ELSE [prev EXCEPT !.rawEvents = Append(@, event)]

(***************************************************************************)
(* App.tsx: what a render does after a handler has run.  The effects run   *)
(* in the order the component declares them: the autosave effect when      *)
(* session changed, the trial-presentation effect when one of its          *)
(* dependencies changed.                                                    *)
(***************************************************************************)
\* The dependency list of the trial-presentation effect.
presentationDeps(state) ==
  IF state = Undefined THEN Undefined
  ELSE <<state.stage, state.currentBlockIndex, state.currentTrialIndex,
         IF currentTrialOf(state) = Undefined THEN <<>> ELSE currentTrialOf(state).id,
         IF currentBlockOf(state) = Undefined THEN "undefined" ELSE currentBlockOf(state).condition>>

\* The effect's body does not return early.
presents(state) ==
  /\ state # Undefined
  /\ state.stage = "trial"
  /\ currentTrialOf(state) # Undefined
  /\ currentBlockOf(state) # Undefined

\* What the callbacks of an effect run close over: currentBlock and
\* currentTrial of that render, by the fields the callback reads.
presentedEvent(state) ==
  [event_type |-> "trial_presented",
   block_index |-> currentBlockOf(state).blockIndex,
   condition |-> currentBlockOf(state).condition,
   trial_id |-> currentTrialOf(state).id,
   trial_index_in_block |-> currentTrialOf(state).trialIndexInBlock,
   payload |-> [is_practice |-> currentTrialOf(state).isPractice]]

\* cancelAnimationFrame(raf1): the callback of the first frame is dropped if
\* it has not run; the second frame's callback cannot be cancelled.
cancelFirstFrame(frames) == SelectSeq(frames, LAMBDA f : f.callback # "raf1")

\* updated is the session after the handler; ready, lock, line, frames and
\* item are trialReady, clickLockRef, feedback, the pending animation-frame
\* callbacks and the stored item as the handler left them.
Render(updated, ready, lock, line, frames, item) ==
  \E nextSession \in {updated} :
    LET restarted == presentationDeps(nextSession) # presentationDeps(session)
        shown == restarted /\ presents(nextSession)
        kept == IF restarted THEN cancelFirstFrame(frames) ELSE frames
    IN /\ session' = nextSession
       /\ localStorage' = IF nextSession # Undefined /\ nextSession # session
                          THEN saveSession(nextSession) ELSE item
       /\ trialReady' = IF shown THEN FALSE ELSE ready
       /\ clickLockRef' = IF shown THEN FALSE ELSE lock
       /\ feedback' = IF shown THEN "" ELSE line
       /\ animationFrames' =
            IF shown
            THEN Append(kept, [callback |-> "raf1", event |-> presentedEvent(nextSession)])
            ELSE kept

(***************************************************************************)
(* App.tsx: the screens.  A handler can run only from a control of the     *)
(* screen that is rendered.                                                 *)
(***************************************************************************)
\* The landing screen.  A callback requestAnimationFrame holds runs within two
\* display frames; the model takes no button of the landing screen to be
\* reached in that time, so its handlers run with no callback pending.
Landing == session = Undefined /\ animationFrames = <<>>

OnStage(stage) == session # Undefined /\ session.stage = stage

\* The screens that render a Withdraw button.
WithdrawStages == {"consent", "demographics", "block_intro", "trial"}

WithdrawShown ==
  /\ session # Undefined
  /\ session.stage \in WithdrawStages
  /\ session.stage = "block_intro" => currentBlockOf(session) # Undefined
  /\ session.stage = "trial" => currentBlockOf(session) # Undefined /\ currentTrialOf(session) # Undefined

\* Bounds of the run: the sessions created, the departures from a straight
\* run through the study (wrong clicks and page reloads together), how many of
\* a trial's wrong items are clicked, and how many of CONDITIONS the
\* developer selector is set to.
MaxSessions == 2

MaxDetours == 1

MaxDistractors == 1

MaxDevCondition == 1

DevConditions == {CONDITIONS[c] : c \in 1..MaxDevCondition}

\* The wrong items of a trial that the run clicks: the first ones in list order.
distractors(trial) ==
  LET wrong == SelectSeq(trial.items, LAMBDA item : item.id # trial.correctItemId)
  IN {wrong[i].id : i \in 1..MaxDistractors}

(***************************************************************************)
(* App.tsx: the handlers                                                   *)
(***************************************************************************)
\* const startFromConsent, from "Start study"
StartFromConsent(drawn) ==
  /\ Landing
  /\ resumeCandidate = Undefined
  /\ created < MaxSessions
  /\ mode' = "landing"
  /\ created' = created + 1
  /\ Render(createSession(<<>>, drawn), trialReady, clickLockRef, feedback,
            animationFrames, localStorage)
  /\ UNCHANGED <<resumeCandidate, consentChecked, visionConfirmed, devEnabled, misclicks, reloaded>>
  /\ UNCHANGED <<callVars, orderVars, sampleVars, exportVars, balanceVars, seedVars, drawVars>>

\* "Start new session": clearSession(); setResumeCandidate(undefined); startFromConsent()
StartNewSession(drawn) ==
  /\ Landing
  /\ resumeCandidate # Undefined
  /\ created < MaxSessions
  /\ resumeCandidate' = Undefined
  /\ mode' = "landing"
  /\ created' = created + 1
  /\ Render(createSession(<<>>, drawn), trialReady, clickLockRef, feedback,
            animationFrames, clearSession)
  /\ UNCHANGED <<consentChecked, visionConfirmed, devEnabled, misclicks, reloaded>>
  /\ UNCHANGED <<callVars, orderVars, sampleVars, exportVars, balanceVars, seedVars, drawVars>>

\* "Resume saved session": setSession(resumeCandidate)
ResumeSavedSession ==
  /\ Landing
  /\ resumeCandidate # Undefined
  /\ Render(resumeCandidate, trialReady, clickLockRef, feedback, animationFrames, localStorage)
  /\ UNCHANGED <<mode, resumeCandidate, consentChecked, visionConfirmed, devEnabled,
                 created, misclicks, reloaded>>
  /\ UNCHANGED <<callVars, orderVars, sampleVars, exportVars, balanceVars, seedVars, drawVars>>

\* const startDevMode, with the condition the selector holds
StartDevMode(drawn, devCondition) ==
  /\ Landing
  /\ devEnabled
  /\ created < MaxSessions
  /\ LET defaultOrder == getLatinSquareOrder(drawn)
         rest == SelectSeq(defaultOrder, LAMBDA condition : condition # devCondition)
         assignedOrder == <<devCondition>> \o rest
         devSession == createSession([participantNumber |-> drawn,
                                      assignedOrder |-> assignedOrder,
                                      stage |-> "block_intro",
                                      demographics |-> defaultDemographics,
                                      consentGiven |-> TRUE], drawn)
     IN Render(devSession, trialReady, clickLockRef, feedback, animationFrames, localStorage)
  /\ mode' = "landing"
  /\ created' = created + 1
  /\ UNCHANGED <<resumeCandidate, consentChecked, visionConfirmed, devEnabled, misclicks, reloaded>>
  /\ UNCHANGED <<callVars, orderVars, sampleVars, exportVars, balanceVars, seedVars, drawVars>>

\* onChange of the consent checkbox
SetConsentChecked ==
  /\ OnStage("consent")
  /\ consentChecked' = ~consentChecked
  /\ UNCHANGED <<mode, session, resumeCandidate, visionConfirmed, trialReady, feedback,
                 clickLockRef, devEnabled, animationFrames, localStorage,
                 created, misclicks, reloaded>>
  /\ UNCHANGED <<callVars, orderVars, sampleVars, exportVars, balanceVars, seedVars, drawVars>>

\* onChange of the vision checkbox
SetVisionConfirmed ==
  /\ OnStage("consent")
  /\ visionConfirmed' = ~visionConfirmed
  /\ UNCHANGED <<mode, session, resumeCandidate, consentChecked, trialReady, feedback,
                 clickLockRef, devEnabled, animationFrames, localStorage,
                 created, misclicks, reloaded>>
  /\ UNCHANGED <<callVars, orderVars, sampleVars, exportVars, balanceVars, seedVars, drawVars>>

\* const submitConsent; the button is disabled unless both boxes are checked
SubmitConsent ==
  /\ OnStage("consent")
  /\ consentChecked /\ visionConfirmed
  /\ Render([session EXCEPT !.consentGiven = TRUE, !.stage = "demographics"],
            trialReady, clickLockRef, feedback, animationFrames, localStorage)
  /\ UNCHANGED <<mode, resumeCandidate, consentChecked, visionConfirmed, devEnabled,
                 created, misclicks, reloaded>>
  /\ UNCHANGED <<callVars, orderVars, sampleVars, exportVars, balanceVars, seedVars, drawVars>>

\* const submitDemographics
SubmitDemographics ==
  /\ OnStage("demographics")
  /\ Render([session EXCEPT !.demographics = defaultDemographics, !.stage = "block_intro"],
            trialReady, clickLockRef, feedback, animationFrames, localStorage)
  /\ UNCHANGED <<mode, resumeCandidate, consentChecked, visionConfirmed, devEnabled,
                 created, misclicks, reloaded>>
  /\ UNCHANGED <<callVars, orderVars, sampleVars, exportVars, balanceVars, seedVars, drawVars>>

\* const startBlock
StartBlock ==
  /\ OnStage("block_intro")
  /\ currentBlockOf(session) # Undefined
  /\ LET currentBlock == currentBlockOf(session)
     IN Render([session EXCEPT
                  !.stage = "trial",
                  !.currentTrialIndex = 0,
                  !.currentTrialErrors = 0,
                  !.rawEvents = Append(@, [participant_id |-> session.participantId,
                                           event_type |-> "block_started",
                                           block_index |-> currentBlock.blockIndex,
                                           condition |-> currentBlock.condition])],
               trialReady, clickLockRef, feedback, animationFrames, localStorage)
  /\ UNCHANGED <<mode, resumeCandidate, consentChecked, visionConfirmed, devEnabled,
                 created, misclicks, reloaded>>
  /\ UNCHANGED <<callVars, orderVars, sampleVars, exportVars, balanceVars, seedVars, drawVars>>

\* The TrialSummary row of a correct click (the fields copied from the trial
\* for display, target_type, target_color, target_shape and prompt_text, are
\* left out).
trialSummary(prev, currentBlock, currentTrial, clickedId) ==
  [participant_id |-> prev.participantId,
   participant_number |-> prev.participantNumber,
   condition |-> currentBlock.condition,
   block_index |-> currentBlock.blockIndex,
   block_order |-> currentBlock.blockOrder,
   trial_index_in_block |-> currentTrial.trialIndexInBlock,
   is_practice |-> currentTrial.isPractice,
   included_in_analysis |-> ~currentTrial.isPractice,
   correct_item_id |-> currentTrial.correctItemId,
   clicked_item_id |-> clickedId,
   is_correct |-> TRUE,
   first_click_correct |-> (prev.currentTrialErrors = 0),
   click_count_this_trial |-> prev.currentTrialErrors + 1,
   error_count_this_trial |-> prev.currentTrialErrors,
   assigned_order |-> orderToLabel(prev.assignedOrder)]

\* Faulty variant of clickedSession: a correct click that does not end the
\* block leaves currentTrialIndex where it was.
clickedSessionSameTrial(prev, currentBlock, currentTrial, clickedId) ==
  LET isCorrect == clickedId = currentTrial.correctItemId
      logged == appendRawEvent(prev, [participant_id |-> prev.participantId,
                                      event_type |-> "item_clicked",
                                      block_index |-> currentBlock.blockIndex,
                                      condition |-> currentBlock.condition,
                                      trial_id |-> currentTrial.id,
                                      trial_index_in_block |-> currentTrial.trialIndexInBlock,
                                      item_id |-> clickedId,
                                      is_correct |-> isCorrect])
      nextTrialIndex == logged.currentTrialIndex + 1
      isEndOfBlock == nextTrialIndex >= Len(currentBlock.trials)
  IN IF ~isCorrect
     THEN [logged EXCEPT !.currentTrialErrors = @ + 1]
     ELSE [logged EXCEPT
             !.trialSummaries = Append(@, trialSummary(logged, currentBlock, currentTrial, clickedId)),
             !.currentTrialErrors = 0,
             !.stage = IF isEndOfBlock THEN "post_block" ELSE "trial",
             !.rawEvents = Append(@, [participant_id |-> logged.participantId,
                                      event_type |-> "trial_completed",
                                      block_index |-> currentBlock.blockIndex,
                                      condition |-> currentBlock.condition,
                                      trial_id |-> currentTrial.id,
                                      trial_index_in_block |-> currentTrial.trialIndexInBlock,
                                      is_correct |-> TRUE,
                                      payload |-> [error_count_this_trial |-> logged.currentTrialErrors,
                                                   is_practice |-> currentTrial.isPractice]])]

\* Faulty variant of clickedSession: a correct click leaves currentTrialErrors
\* as it is, for the next trial.
clickedSessionKeepErrors(prev, currentBlock, currentTrial, clickedId) ==
  LET isCorrect == clickedId = currentTrial.correctItemId
      logged == appendRawEvent(prev, [participant_id |-> prev.participantId,
                                      event_type |-> "item_clicked",
                                      block_index |-> currentBlock.blockIndex,
                                      condition |-> currentBlock.condition,
                                      trial_id |-> currentTrial.id,
                                      trial_index_in_block |-> currentTrial.trialIndexInBlock,
                                      item_id |-> clickedId,
                                      is_correct |-> isCorrect])
      nextTrialIndex == logged.currentTrialIndex + 1
      isEndOfBlock == nextTrialIndex >= Len(currentBlock.trials)
      reachedMeasuredStart == /\ currentTrial.isPractice
                              /\ ~isEndOfBlock
                              /\ ~currentBlock.trials[nextTrialIndex + 1].isPractice
  IN IF ~isCorrect
     THEN [logged EXCEPT !.currentTrialErrors = @ + 1]
     ELSE [logged EXCEPT
             !.trialSummaries = Append(@, trialSummary(logged, currentBlock, currentTrial, clickedId)),
             !.currentTrialIndex = IF isEndOfBlock THEN @ ELSE nextTrialIndex,
             !.stage = IF isEndOfBlock THEN "post_block"
                       ELSE IF reachedMeasuredStart THEN "practice_transition" ELSE "trial",
             !.rawEvents = Append(@, [participant_id |-> logged.participantId,
                                      event_type |-> "trial_completed",
                                      block_index |-> currentBlock.blockIndex,
                                      condition |-> currentBlock.condition,
                                      trial_id |-> currentTrial.id,
                                      trial_index_in_block |-> currentTrial.trialIndexInBlock,
                                      is_correct |-> TRUE,
                                      payload |-> [error_count_this_trial |-> logged.currentTrialErrors,
                                                   is_practice |-> currentTrial.isPractice]])]

\* The session after the two setSession calls of a click handleItemClick
\* does not ignore.
clickedSession(prev, currentBlock, currentTrial, clickedId) ==
  LET isCorrect == clickedId = currentTrial.correctItemId
      logged == appendRawEvent(prev, [participant_id |-> prev.participantId,
                                      event_type |-> "item_clicked",
                                      block_index |-> currentBlock.blockIndex,
                                      condition |-> currentBlock.condition,
                                      trial_id |-> currentTrial.id,
                                      trial_index_in_block |-> currentTrial.trialIndexInBlock,
                                      item_id |-> clickedId,
                                      is_correct |-> isCorrect])
      nextTrialIndex == logged.currentTrialIndex + 1
      isEndOfBlock == nextTrialIndex >= Len(currentBlock.trials)
      reachedMeasuredStart == /\ currentTrial.isPractice
                              /\ ~isEndOfBlock
                              /\ ~currentBlock.trials[nextTrialIndex + 1].isPractice
  IN IF ~isCorrect
     THEN [logged EXCEPT !.currentTrialErrors = @ + 1]
     ELSE [logged EXCEPT
             !.trialSummaries = Append(@, trialSummary(logged, currentBlock, currentTrial, clickedId)),
             !.currentTrialErrors = 0,
             !.currentTrialIndex = IF isEndOfBlock THEN @ ELSE nextTrialIndex,
             !.stage = IF isEndOfBlock THEN "post_block"
                       ELSE IF reachedMeasuredStart THEN "practice_transition" ELSE "trial",
             !.rawEvents = Append(@, [participant_id |-> logged.participantId,
                                      event_type |-> "trial_completed",
                                      block_index |-> currentBlock.blockIndex,
                                      condition |-> currentBlock.condition,
                                      trial_id |-> currentTrial.id,
                                      trial_index_in_block |-> currentTrial.trialIndexInBlock,
                                      is_correct |-> TRUE,
                                      payload |-> [error_count_this_trial |-> logged.currentTrialErrors,
                                                   is_practice |-> currentTrial.isPractice]])]

\* const handleItemClick, from an item's button (disabled while !trialReady)
HandleItemClick(clickedId) ==
  /\ OnStage("trial")
  /\ currentBlockOf(session) # Undefined /\ currentTrialOf(session) # Undefined
  /\ trialReady
  /\ LET currentBlock == currentBlockOf(session)
         currentTrial == currentTrialOf(session)
         isCorrect == clickedId = currentTrial.correctItemId
     IN /\ clickedId \in {currentTrial.correctItemId} \cup distractors(currentTrial)
        /\ IF clickLockRef
           THEN UNCHANGED <<session, trialReady, clickLockRef, feedback, animationFrames,
                            localStorage, misclicks>>
           ELSE /\ ~isCorrect => misclicks + reloaded < MaxDetours
                /\ misclicks' = IF isCorrect THEN misclicks ELSE misclicks + 1
                /\ Render(clickedSession(session, currentBlock, currentTrial, clickedId),
                          trialReady,
                          IF isCorrect THEN TRUE ELSE clickLockRef,
                          IF isCorrect THEN "Correct"
                          ELSE "Incorrect selection logged. Please try again.",
                          animationFrames, localStorage)
  /\ UNCHANGED <<mode, resumeCandidate, consentChecked, visionConfirmed, devEnabled,
                 created, reloaded>>
  /\ UNCHANGED <<callVars, orderVars, sampleVars, exportVars, balanceVars, seedVars, drawVars>>

\* const continueToMeasuredTrials
ContinueToMeasuredTrials ==
  /\ OnStage("practice_transition")
  /\ currentBlockOf(session) # Undefined
  /\ Render([session EXCEPT !.stage = "trial"],
            trialReady, clickLockRef, feedback, animationFrames, localStorage)
  /\ UNCHANGED <<mode, resumeCandidate, consentChecked, visionConfirmed, devEnabled,
                 created, misclicks, reloaded>>
  /\ UNCHANGED <<callVars, orderVars, sampleVars, exportVars, balanceVars, seedVars, drawVars>>

\* const submitLikert, with the ratings at their defaults
SubmitLikert ==
  /\ OnStage("post_block")
  /\ currentBlockOf(session) # Undefined
  /\ LET currentBlock == currentBlockOf(session)
         rating == [participant_id |-> session.participantId,
                    participant_number |-> session.participantNumber,
                    block_index |-> currentBlock.blockIndex,
                    block_order |-> currentBlock.blockOrder,
                    condition |-> currentBlock.condition,
                    clarity_1_to_5 |-> 3,
                    ease_of_use_1_to_5 |-> 3,
                    preference_1_to_5 |-> 3,
                    assigned_order |-> orderToLabel(session.assignedOrder)]
         lastBlock == session.currentBlockIndex >= Len(session.blocks) - 1
         submitted == [participant_id |-> session.participantId,
                       event_type |-> "likert_submitted",
                       block_index |-> currentBlock.blockIndex,
                       condition |-> currentBlock.condition,
                       payload |-> [clarity |-> 3, ease_of_use |-> 3, preference |-> 3]]
         completed == [participant_id |-> session.participantId,
                       event_type |-> "session_completed"]
     IN Render([session EXCEPT
                  !.blockLikerts = Append(@, rating),
                  !.currentBlockIndex = IF lastBlock THEN @ ELSE @ + 1,
                  !.currentTrialIndex = 0,
                  !.stage = IF lastBlock THEN "complete" ELSE "break",
                  !.completedAtIso = IF lastBlock THEN "set" ELSE @,
                  !.rawEvents = @ \o <<submitted>> \o (IF lastBlock THEN <<completed>> ELSE <<>>)],
               trialReady, clickLockRef, feedback, animationFrames, localStorage)
  /\ UNCHANGED <<mode, resumeCandidate, consentChecked, visionConfirmed, devEnabled,
                 created, misclicks, reloaded>>
  /\ UNCHANGED <<callVars, orderVars, sampleVars, exportVars, balanceVars, seedVars, drawVars>>

\* Faulty variant of ContinueNextBlock: the break leads straight into the trials.
ContinueNextBlockSkippingIntro ==
  /\ OnStage("break")
  /\ Render([session EXCEPT !.stage = "trial"],
            trialReady, clickLockRef, feedback, animationFrames, localStorage)
  /\ UNCHANGED <<mode, resumeCandidate, consentChecked, visionConfirmed, devEnabled,
                 created, misclicks, reloaded>>
  /\ UNCHANGED <<callVars, orderVars, sampleVars, exportVars, balanceVars, seedVars, drawVars>>

\* const continueNextBlock
ContinueNextBlock ==
  /\ OnStage("break")
  /\ Render([session EXCEPT !.stage = "block_intro"],
            trialReady, clickLockRef, feedback, animationFrames, localStorage)
  /\ UNCHANGED <<mode, resumeCandidate, consentChecked, visionConfirmed, devEnabled,
                 created, misclicks, reloaded>>
  /\ UNCHANGED <<callVars, orderVars, sampleVars, exportVars, balanceVars, seedVars, drawVars>>

\* const handleWithdraw, from a Withdraw button: the event is appended to a
\* session that setSession(undefined) then replaces
HandleWithdraw ==
  /\ WithdrawShown
  /\ LET logged == appendRawEvent(session, [participant_id |-> session.participantId,
                                            event_type |-> "withdrawn"])
         replaced == IF logged = Undefined THEN logged ELSE Undefined
     IN Render(replaced, trialReady, clickLockRef, feedback, animationFrames, clearSession)
  /\ mode' = "withdrawn"
  /\ UNCHANGED <<resumeCandidate, consentChecked, visionConfirmed, devEnabled,
                 created, misclicks, reloaded>>
  /\ UNCHANGED <<callVars, orderVars, sampleVars, exportVars, balanceVars, seedVars, drawVars>>

\* "End and clear local session" of the completion screen
EndAndClear ==
  /\ OnStage("complete")
  /\ resumeCandidate' = Undefined
  /\ Render(Undefined, trialReady, clickLockRef, feedback, animationFrames, clearSession)
  /\ UNCHANGED <<mode, consentChecked, visionConfirmed, devEnabled, created, misclicks, reloaded>>
  /\ UNCHANGED <<callVars, orderVars, sampleVars, exportVars, balanceVars, seedVars, drawVars>>

\* The browser runs the callbacks requestAnimationFrame holds: a first-frame
\* callback requests the second frame, a second-frame callback sets
\* trialReady and appends trial_presented to whatever session there is.
RECURSIVE presentedAll(_, _)
presentedAll(prev, frames) ==
  IF frames = <<>> THEN prev
  ELSE presentedAll(
         IF Head(frames).callback = "raf2" /\ prev # Undefined
         THEN appendRawEvent(prev, [participant_id |-> prev.participantId,
                                    event_type |-> "trial_presented",
                                    block_index |-> Head(frames).event.block_index,
                                    condition |-> Head(frames).event.condition,
                                    trial_id |-> Head(frames).event.trial_id,
                                    trial_index_in_block |-> Head(frames).event.trial_index_in_block,
                                    payload |-> Head(frames).event.payload])
         ELSE prev,
         Tail(frames))

RECURSIVE requestedAll(_)
requestedAll(frames) ==
  IF frames = <<>> THEN <<>>
  ELSE (IF Head(frames).callback = "raf1"
        THEN <<[callback |-> "raf2", event |-> Head(frames).event]>> ELSE <<>>)
       \o requestedAll(Tail(frames))

AnimationFrame ==
  /\ animationFrames # <<>>
  /\ Render(presentedAll(session, animationFrames),
            IF \E i \in 1..Len(animationFrames) : animationFrames[i].callback = "raf2"
            THEN TRUE ELSE trialReady,
            clickLockRef, feedback, requestedAll(animationFrames), localStorage)
  /\ UNCHANGED <<mode, resumeCandidate, consentChecked, visionConfirmed, devEnabled,
                 created, misclicks, reloaded>>
  /\ UNCHANGED <<callVars, orderVars, sampleVars, exportVars, balanceVars, seedVars, drawVars>>

\* The page is loaded again: the component state starts over, the stored item
\* stays, and the mount effect offers a stored session that is not complete.
ReloadPage ==
  /\ reloaded' = reloaded + 1
  /\ mode' = "landing"
  /\ session' = Undefined
  /\ resumeCandidate' = LET loaded == loadSession(localStorage)
                        IN IF loaded # Undefined /\ loaded.stage # "complete"
                           THEN loaded ELSE Undefined
  /\ consentChecked' = FALSE
  /\ visionConfirmed' = FALSE
  /\ trialReady' = FALSE
  /\ feedback' = ""
  /\ clickLockRef' = FALSE
  /\ animationFrames' = <<>>
  /\ UNCHANGED <<devEnabled, localStorage, created, misclicks>>
  /\ UNCHANGED <<callVars, orderVars, sampleVars, exportVars, balanceVars, seedVars, drawVars>>

\* A reload within the detours of a run.
Reload ==
  /\ misclicks + reloaded < MaxDetours
  /\ ReloadPage

(***************************************************************************)
(* Spec: one browser tab running the App from its first load               *)
(***************************************************************************)
Init ==
  /\ CallIdle
  /\ OrderIdle
  /\ SampleIdle
  /\ ExportIdle
  /\ BalanceIdle
  /\ SeedIdle
  /\ DrawIdle
  /\ mode = "landing"
  /\ session = Undefined
  /\ resumeCandidate = Undefined
  /\ consentChecked = FALSE
  /\ visionConfirmed = FALSE
  /\ trialReady = FALSE
  /\ feedback = ""
  /\ clickLockRef = FALSE
  /\ devEnabled \in BOOLEAN
  /\ animationFrames = <<>>
  /\ localStorage = Undefined
  /\ created = 0
  /\ misclicks = 0
  /\ reloaded = 0

Next ==
  \/ \E drawn \in AppParticipants : StartFromConsent(drawn)
  \/ \E drawn \in AppParticipants : StartNewSession(drawn)
  \/ ResumeSavedSession
  \/ \E drawn \in AppParticipants, devCondition \in DevConditions :
       StartDevMode(drawn, devCondition)
  \/ SetConsentChecked
  \/ SetVisionConfirmed
  \/ SubmitConsent
  \/ SubmitDemographics
  \/ StartBlock
  \/ \E k \in 1..8 : HandleItemClick(itemId(k))
  \/ ContinueToMeasuredTrials
  \/ SubmitLikert
  \/ ContinueNextBlock
  \/ HandleWithdraw
  \/ EndAndClear
  \/ AnimationFrame
  \/ Reload

Spec == Init /\ [][Next]_vars

(***************************************************************************)
(* SpecStart: the first session of a tab, from the landing screen into the *)
(* first trials of its first block, over more participant numbers and all  *)
(* settings of the developer selector                                      *)
(***************************************************************************)
\* The numbers of ParticipantNumbers createParticipantNumber can return.
StartParticipants == {n \in ParticipantNumbers : n >= 100000 /\ n <= 999999}

\* How many trials of the first block the run answers.
MaxStartTrials == 4

StartNext ==
  \/ \E drawn \in StartParticipants : created = 0 /\ StartFromConsent(drawn)
  \/ \E drawn \in StartParticipants, c \in 1..Len(CONDITIONS) :
       created = 0 /\ StartDevMode(drawn, CONDITIONS[c])
  \/ SetConsentChecked
  \/ SetVisionConfirmed
  \/ SubmitConsent
  \/ SubmitDemographics
  \/ StartBlock
  \/ AnimationFrame
  \/ \E k \in 1..8 :
       /\ session # Undefined
       /\ session.currentTrialIndex < MaxStartTrials
       /\ HandleItemClick(itemId(k))
  \/ ContinueToMeasuredTrials

SpecStart == Init /\ [][StartNext]_vars

(***************************************************************************)
(* Claims about generateBlockPlan, checked under SpecPlan                  *)
(***************************************************************************)
\* The call returned a BlockPlan (it did not throw).
Returned == phase = "returned" /\ ~isThrown(callResult)

\* The positions of the items of a trial that meet its target criterion, as
\* the claims state it.
matchingItems(trial) ==
  {i \in 1..Len(trial.items) :
     CASE trial.condition = "color" -> trial.items[i].colorName = trial.targetColor
       [] trial.condition = "shape" -> trial.items[i].shapeName = trial.targetShape
       [] OTHER -> /\ trial.items[i].colorName = trial.targetColor
                   /\ trial.items[i].shapeName = trial.targetShape}

\* C1: in every trial of every returned plan (practice and measured, all
\* three conditions) exactly one item meets the target criterion, and
\* correctItemId is the id of that item.
C1_ExactlyOneTarget ==
  Returned =>
    \A k \in 1..Len(callResult.trials) :
      LET trial == callResult.trials[k]
          hits == matchingItems(trial)
      IN /\ Cardinality(hits) = 1
         /\ \A i \in hits : trial.items[i].id = trial.correctItemId

C1_Witness ==
  /\ Returned
  /\ callResult.condition = "combined"
  /\ Len(callResult.trials) = 13
  /\ \E k \in 1..13 : callResult.trials[k].correctItemId = <<"item_", 8>>

\* The number of measured trials of a plan whose target (field) is name.
measuredCount(plan, field, name) ==
  Cardinality({k \in 1..Len(plan.trials) :
                 ~plan.trials[k].isPractice /\ plan.trials[k][field] = name})

\* The target counts of the categories differ by at most 1, and with 10
\* measured trials exactly 2 categories have count 2 and the other 6 count 1.
nearEven(plan, field, categories) ==
  LET names == {categories[i] : i \in 1..Len(categories)}
  IN /\ \A a, b \in names :
          measuredCount(plan, field, a) - measuredCount(plan, field, b) <= 1
     /\ callArgs.measuredTrials = 10 =>
          /\ Cardinality({a \in names : measuredCount(plan, field, a) = 2}) = 2
          /\ Cardinality({a \in names : measuredCount(plan, field, a) = 1}) = 6

\* C2: over the measured trials of a plan the per-category target counts
\* differ by at most 1 (colors in color-only, shapes in shape-only, both
\* marginals in combined); with 10 measured trials 2 categories are the
\* target twice and 6 once.
C2_NearEvenTargets ==
  Returned =>
    /\ callResult.condition # "shape" => nearEven(callResult, "targetColor", COLORS)
    /\ callResult.condition # "color" => nearEven(callResult, "targetShape", SHAPES)

C2_Witness ==
  /\ Returned
  /\ callResult.condition = "combined"
  /\ callArgs.measuredTrials = 10
  /\ callArgs.practiceTrials = 3
  /\ \E a \in {COLORS[i] : i \in 1..8} : measuredCount(callResult, "targetColor", a) = 2
  /\ \E a \in {SHAPES[i] : i \in 1..8} : measuredCount(callResult, "targetShape", a) = 2

\* C3: the plan holds exactly practiceTrials + measuredTrials trials, the
\* first practiceTrials of them flagged practice and the others not, and its
\* two count fields are those two numbers.
C3_TrialCounts ==
  Returned =>
    /\ Len(callResult.trials) = callArgs.practiceTrials + callArgs.measuredTrials
    /\ \A k \in 1..Len(callResult.trials) :
         callResult.trials[k].isPractice <=> k <= callArgs.practiceTrials
    /\ callResult.practiceTrials = callArgs.practiceTrials
    /\ callResult.measuredTrials = callArgs.measuredTrials

C3_Witness ==
  /\ Returned
  /\ callArgs.practiceTrials = 3
  /\ callArgs.measuredTrials = 10
  /\ Len(callResult.trials) = 13
  /\ callResult.trials[3].isPractice
  /\ ~callResult.trials[4].isPractice

\* C4: every trial has exactly 8 items, with ids item_1 .. item_8 in list
\* order.
C4_EightItems ==
  Returned =>
    \A k \in 1..Len(callResult.trials) :
      LET items == callResult.trials[k].items
      IN /\ Len(items) = 8
         /\ \A i \in 1..Len(items) : items[i].id = <<"item_", i>>
         /\ Cardinality({items[i].id : i \in 1..Len(items)}) = 8

C4_Witness ==
  /\ Returned
  /\ callResult.condition = "shape"
  /\ Len(callResult.trials) = 13
  /\ callResult.trials[13].items[8].id = <<"item_", 8>>

LabelABC == <<"A", "B", "C">>

LabelBCA == <<"B", "C", "A">>

LabelCAB == <<"C", "A", "B">>

\* C6: the label of the order of participant number n is ABC, BCA or CAB as
\* n mod 3 is 0, 1 or 2.
C6_LabelByRemainder ==
  scanned > 0 =>
    LET n == rangeStart + scanned - 1
    IN lastLabel = CASE n % 3 = 0 -> LabelABC
                     [] n % 3 = 1 -> LabelBCA
                     [] OTHER -> LabelCAB

C6_Witness ==
  /\ rangeStart + scanned - 1 = 100002
  /\ scanned > 0
  /\ lastLabel = LabelABC

\* C7: after any number L of consecutive participant numbers that is a
\* multiple of 3, each of the three orders was selected exactly L / 3 times.
C7_EvenOverRange ==
  scanned % 3 = 0 =>
    \A label \in {LabelABC, LabelBCA, LabelCAB} : mapGet(counts, label) = scanned \div 3

C7_Witness ==
  /\ rangeStart = 100001
  /\ scanned = 300
  /\ mapGet(counts, LabelABC) = 100
  /\ mapGet(counts, LabelBCA) = 100
  /\ mapGet(counts, LabelCAB) = 100

\* C8: the rows of LATIN_SQUARE_3 are labelled ABC, BCA, CAB in this order,
\* each row is a permutation of the three conditions, and each condition
\* stands exactly once at each position over the three rows; every order
\* assigned is one of these rows.
C8_LatinSquare ==
  LET conditions == {"color", "shape", "combined"}
  IN /\ Len(LATIN_SQUARE_3) = 3
     /\ [i \in 1..3 |-> orderToLabel(LATIN_SQUARE_3[i])] = <<LabelABC, LabelBCA, LabelCAB>>
     /\ \A i \in 1..3 :
          /\ Len(LATIN_SQUARE_3[i]) = 3
          /\ {LATIN_SQUARE_3[i][pos] : pos \in 1..3} = conditions
     /\ \A pos \in 1..3 : {LATIN_SQUARE_3[i][pos] : i \in 1..3} = conditions
     /\ scanned > 0 => \E i \in 1..3 : lastLabel = orderToLabel(LATIN_SQUARE_3[i])

C8_Witness ==
  /\ scanned >= 3
  /\ DOMAIN counts = {LabelABC, LabelBCA, LabelCAB}

\* C9: over 200 consecutive participant numbers, more than 2 distinct colours
\* are the measured target twice in some participant's colour-only block.
C9_ExtrasVary ==
  sampled = SampleSize => Cardinality(doubledColorTargets) > 2

C9_Witness ==
  /\ sampleStart = 300000
  /\ sampled = SampleSize
  /\ Cardinality(doubledColorTargets) > 2

(***************************************************************************)
(* Claims about the App, checked under Spec                                *)
(***************************************************************************)
\* The stages of an active session before completion.
StagesBeforeCompletion ==
  {"consent", "demographics", "block_intro", "trial", "practice_transition", "post_block", "break"}

\* C10: participants can withdraw at any time: in every stage of an active
\* session before completion the screen offers the withdraw action.  The
\* screens of practice_transition, post_block and break render no Withdraw
\* button, so this statement fails there.
C10_WithdrawAtAnyTime ==
  (session # Undefined /\ session.stage \in StagesBeforeCompletion) => WithdrawShown

\* The last element of a non-empty sequence.
lastOf(seq) == seq[Len(seq)]

\* The step is a click on an item that is not the correct one (the only steps
\* that count a wrong click).
WrongClickStep == misclicks' # misclicks

\* The step completes a trial of the session it started with: a trial summary
\* row or a trial_completed event is added.
CompletesTrialStep ==
  /\ session # Undefined
  /\ session' # Undefined
  /\ session'.participantId = session.participantId
  /\ \/ Len(session'.trialSummaries) > Len(session.trialSummaries)
     \/ session'.currentTrialIndex > session.currentTrialIndex
     \/ session.stage = "trial" /\ session'.stage \in {"practice_transition", "post_block"}

\* C11: while a trial is ready and not locked, a click on an item that is not
\* the correct one appends one item_clicked raw event with is_correct = false,
\* adds exactly 1 to currentTrialErrors and leaves stage, currentBlockIndex,
\* currentTrialIndex and trialSummaries as they were; a trial is completed
\* only by a click on its correct item.
C11_WrongClickFrame ==
  [][/\ WrongClickStep =>
          /\ session # Undefined /\ session' # Undefined
          /\ trialReady /\ ~clickLockRef
          /\ session'.rawEvents = Append(session.rawEvents, lastOf(session'.rawEvents))
          /\ lastOf(session'.rawEvents).event_type = "item_clicked"
          /\ lastOf(session'.rawEvents).is_correct = FALSE
          /\ lastOf(session'.rawEvents).trial_id = currentTrialOf(session).id
          /\ lastOf(session'.rawEvents).item_id # currentTrialOf(session).correctItemId
          /\ session'.currentTrialErrors = session.currentTrialErrors + 1
          /\ session'.stage = session.stage
          /\ session'.currentBlockIndex = session.currentBlockIndex
          /\ session'.currentTrialIndex = session.currentTrialIndex
          /\ session'.trialSummaries = session.trialSummaries
     /\ CompletesTrialStep =>
          /\ ~WrongClickStep
          /\ session.stage = "trial" /\ trialReady /\ ~clickLockRef
          /\ session'.trialSummaries = Append(session.trialSummaries, lastOf(session'.trialSummaries))
          /\ lastOf(session'.trialSummaries).clicked_item_id = currentTrialOf(session).correctItemId
          /\ lastOf(session'.trialSummaries).trial_index_in_block = currentTrialOf(session).trialIndexInBlock
          /\ lastOf(session'.trialSummaries).block_index = session.currentBlockIndex
          /\ Len(session'.rawEvents) = Len(session.rawEvents) + 2
          /\ session'.rawEvents[Len(session.rawEvents) + 1].event_type = "item_clicked"
          /\ session'.rawEvents[Len(session.rawEvents) + 1].is_correct = TRUE
          /\ session'.rawEvents[Len(session.rawEvents) + 1].item_id = currentTrialOf(session).correctItemId
          /\ lastOf(session'.rawEvents).event_type = "trial_completed"
    ]_vars

\* A wrong click was logged on a trial that is still the current one.
C11_Witness ==
  /\ misclicks = 1
  /\ session # Undefined
  /\ session.stage = "trial"
  /\ session.currentTrialErrors = 1
  /\ lastOf(session.rawEvents).event_type = "item_clicked"
  /\ lastOf(session.rawEvents).is_correct = FALSE

\* The trial summary rows of a session for the trial k (trialIndexInBlock) of
\* block b, and its trial_completed events for that trial.
summaryRows(state, b, k) ==
  {i \in 1..Len(state.trialSummaries) :
     /\ state.trialSummaries[i].block_index = b
     /\ state.trialSummaries[i].trial_index_in_block = k}

completedEvents(state, b, k) ==
  {i \in 1..Len(state.rawEvents) :
     /\ state.rawEvents[i].event_type = "trial_completed"
     /\ state.rawEvents[i].block_index = b
     /\ state.rawEvents[i].trial_index_in_block = k}

\* handleItemClick does not ignore a click.
AcceptsClicks ==
  /\ OnStage("trial")
  /\ currentTrialOf(session) # Undefined
  /\ trialReady
  /\ ~clickLockRef

\* The current trial was presented after the latest completion of a trial.
PresentedSinceCompletion ==
  \E i \in 1..Len(session.rawEvents) :
    /\ session.rawEvents[i].event_type = "trial_presented"
    /\ session.rawEvents[i].block_index = currentBlockOf(session).blockIndex
    /\ session.rawEvents[i].trial_id = currentTrialOf(session).id
    /\ \A j \in (i + 1)..Len(session.rawEvents) :
         session.rawEvents[j].event_type # "trial_completed"

\* No trial of the session has two summary rows or two trial_completed
\* events (the rows, and the events, differ pairwise in block and trial), and a click is accepted only on a trial that is not completed yet
\* and was presented since the latest completion.
SingleCompletion ==
  session # Undefined =>
    /\ LET rows == session.trialSummaries
           completed == SelectSeq(session.rawEvents,
                                  LAMBDA e : e.event_type = "trial_completed")
       IN /\ Cardinality({<<rows[i].block_index, rows[i].trial_index_in_block>> :
                            i \in 1..Len(rows)}) = Len(rows)
          /\ Cardinality({<<completed[i].block_index, completed[i].trial_index_in_block>> :
                            i \in 1..Len(completed)}) = Len(completed)
    /\ AcceptsClicks =>
         /\ summaryRows(session, session.currentBlockIndex,
                        currentTrialOf(session).trialIndexInBlock) = {}
         /\ PresentedSinceCompletion

RECURSIVE trialKeys(_, _)
\* The trials of the blocks b, b + 1, ... of a session in study order, each as
\* <<block index, trial index in block>>.
trialKeys(blocks, b) ==
  IF b > Len(blocks) THEN <<>>
  ELSE [k \in 1..Len(blocks[b].trials) |->
          <<blocks[b].blockIndex, blocks[b].trials[k].trialIndexInBlock>>]
       \o trialKeys(blocks, b + 1)

\* How many trials the stage and the two indices of a session say are done.
trialsDone(state) ==
  IF state.stage = "complete" THEN Len(trialKeys(state.blocks, 1))
  ELSE Len(trialKeys(state.blocks, 1)) - Len(trialKeys(state.blocks, state.currentBlockIndex + 1))
       + (IF state.stage = "post_block"
          THEN Len(state.blocks[state.currentBlockIndex + 1].trials)
          ELSE state.currentTrialIndex)

\* How many blocks the stage and the block index say are rated.
blocksRated(state) ==
  IF state.stage = "complete" THEN Len(state.blocks) ELSE state.currentBlockIndex

\* The session is where the enforced order puts it: consent was given once
\* the consent stage is left, the blocks are the conditions in assigned order,
\* the completed trials are exactly the trials before the current one in
\* study order, and the blocks before the current one have one rating each.
InEnforcedOrder(state) ==
  /\ state.stage # "consent" => state.consentGiven
  /\ state.stage \in {"consent", "demographics"} =>
       state.currentBlockIndex = 0 /\ state.currentTrialIndex = 0
  /\ Len(state.blocks) = 3
  /\ \A b \in 1..Len(state.blocks) :
       /\ state.blocks[b].condition = state.assignedOrder[b]
       /\ state.blocks[b].blockIndex = b - 1
  /\ state.currentBlockIndex \in 0..(Len(state.blocks) - 1)
  /\ state.stage \in {"block_intro", "break"} => state.currentTrialIndex = 0
  /\ state.stage \in {"trial", "practice_transition", "post_block"} =>
       state.currentTrialIndex \in 0..(Len(state.blocks[state.currentBlockIndex + 1].trials) - 1)
  /\ state.stage = "trial" /\ currentTrialOf(state).isPractice =>
       \A k \in 1..state.currentTrialIndex :
         state.blocks[state.currentBlockIndex + 1].trials[k].isPractice
  /\ [i \in 1..Len(state.trialSummaries) |->
        <<state.trialSummaries[i].block_index, state.trialSummaries[i].trial_index_in_block>>]
       = SubSeq(trialKeys(state.blocks, 1), 1, trialsDone(state))
  /\ [i \in 1..Len(state.blockLikerts) |-> state.blockLikerts[i].block_index]
       = [i \in 1..blocksRated(state) |-> i - 1]
  /\ state.stage = "complete" =>
       /\ Len(state.trialSummaries) = 3 * (DEFAULT_PRACTICE_TRIALS + DEFAULT_MEASURED_TRIALS)
       /\ Len(state.blockLikerts) = 3

\* A step of one session from `from` to `to` follows the enforced order of
\* the stages.
stageStep(from, to) ==
  LET trials == from.blocks[from.currentBlockIndex + 1].trials
      index == from.currentTrialIndex
      sameBlock == to.currentBlockIndex = from.currentBlockIndex
      samePlace == sameBlock /\ to.currentTrialIndex = index
  IN CASE from.stage = "consent" ->
            \/ to.stage = "consent" /\ samePlace
            \/ to.stage = "demographics" /\ samePlace /\ consentChecked /\ visionConfirmed
       [] from.stage = "demographics" ->
            \/ to.stage = "demographics" /\ samePlace
            \/ to.stage = "block_intro" /\ samePlace
       [] from.stage = "block_intro" ->
            \/ to.stage = "block_intro" /\ samePlace
            \/ to.stage = "trial" /\ samePlace /\ trials[1].isPractice
       [] from.stage = "trial" ->
            \/ to.stage = "trial" /\ samePlace
            \/ /\ to.stage = "trial" /\ sameBlock /\ to.currentTrialIndex = index + 1
               /\ trials[index + 1].isPractice = trials[index + 2].isPractice
            \/ /\ to.stage = "practice_transition" /\ sameBlock
               /\ to.currentTrialIndex = index + 1
               /\ trials[index + 1].isPractice /\ ~trials[index + 2].isPractice
            \/ to.stage = "post_block" /\ samePlace /\ index + 1 = Len(trials)
       [] from.stage = "practice_transition" ->
            \/ to.stage = "practice_transition" /\ samePlace
            \/ to.stage = "trial" /\ samePlace /\ ~trials[index + 1].isPractice
       [] from.stage = "post_block" ->
            \/ to.stage = "post_block" /\ samePlace
            \/ /\ to.stage = "break" /\ to.currentBlockIndex = from.currentBlockIndex + 1
               /\ from.currentBlockIndex + 1 < Len(from.blocks)
            \/ to.stage = "complete" /\ sameBlock /\ from.currentBlockIndex + 1 = Len(from.blocks)
       [] from.stage = "break" ->
            \/ to.stage = "break" /\ samePlace
            \/ to.stage = "block_intro" /\ samePlace
       [] OTHER -> to.stage = from.stage /\ samePlace

heldSessions == {session, loadSession(localStorage)} \ {Undefined}

\* The label the remainder of the participant number names.
labelByRemainder(participantNumber) ==
  CASE participantNumber % 3 = 0 -> LabelABC
    [] participantNumber % 3 = 1 -> LabelBCA
    [] OTHER -> LabelCAB

\* The session's order is the Latin-square order of its participant number,
\* and the assigned_order label of its session_started event and of its trial
\* summary rows is the label of that order.
hasLatinOrder(state) ==
  /\ state.assignedOrder = getLatinSquareOrder(state.participantNumber)
  /\ orderToLabel(state.assignedOrder) = labelByRemainder(state.participantNumber)
  /\ state.rawEvents[1].event_type = "session_started"
  /\ state.rawEvents[1].payload.assigned_order = labelByRemainder(state.participantNumber)
  /\ \A i \in 1..Len(state.trialSummaries) :
       state.trialSummaries[i].assigned_order = labelByRemainder(state.participantNumber)

MaxSummaryTrials == 5

MaxTrialErrors == 1

MaxReactionTime == 1

\* The participant numbers createParticipantNumber draws in this run: the
\* smallest ones, one for each row of the Latin square.
SummaryParticipants == {n \in StartParticipants : \A m \in StartParticipants : n <= m + MaxOffset}

\* const reactionTimeMs: Math.max(0, Math.round(...)) of two clock readings
ReactionTimes == 0..MaxReactionTime

\* The summary row of handleItemClick with its reaction_time_ms.
timedSummary(row, reactionTimeMs) == row @@ [reaction_time_ms |-> reactionTimeMs]

\* clickedSession with the reaction time in the row a correct click appends.
timedSession(prev, currentBlock, currentTrial, clickedId, reactionTimeMs) ==
  LET updated == clickedSession(prev, currentBlock, currentTrial, clickedId)
      last == Len(updated.trialSummaries)
  IN IF clickedId = currentTrial.correctItemId
     THEN [updated EXCEPT !.trialSummaries[last] = timedSummary(@, reactionTimeMs)]
     ELSE updated

\* const handleItemClick, with the reaction time the clock gives to a correct
\* click
HandleTimedClick(clickedId, reactionTimeMs) ==
  /\ OnStage("trial")
  /\ currentBlockOf(session) # Undefined /\ currentTrialOf(session) # Undefined
  /\ trialReady
  /\ ~clickLockRef
  /\ LET currentBlock == currentBlockOf(session)
         currentTrial == currentTrialOf(session)
         isCorrect == clickedId = currentTrial.correctItemId
     IN /\ clickedId \in {currentTrial.correctItemId} \cup distractors(currentTrial)
        /\ ~isCorrect => session.currentTrialErrors < MaxTrialErrors
        /\ Render(timedSession(session, currentBlock, currentTrial, clickedId, reactionTimeMs),
                  trialReady,
                  IF isCorrect THEN TRUE ELSE clickLockRef,
                  IF isCorrect THEN "Correct"
                  ELSE "Incorrect selection logged. Please try again.",
                  animationFrames, localStorage)
  /\ UNCHANGED <<mode, resumeCandidate, consentChecked, visionConfirmed, devEnabled,
                 created, misclicks, reloaded>>
  /\ UNCHANGED <<callVars, orderVars, sampleVars, exportVars, balanceVars, seedVars, drawVars>>

\* rows.reduce((sum, row) => sum + row[field], 0)
RECURSIVE reduceSum(_, _)
reduceSum(rows, field) ==
  IF rows = <<>> THEN 0 ELSE rows[1][field] + reduceSum(Tail(rows), field)

\* Math.round of the quotient of two non-negative integers: halves go up.
mathRoundQuotient(dividend, divisor) == (2 * dividend + divisor) \div (2 * divisor)

\* Faulty variant of buildParticipantSummary: the rows are not filtered.
buildParticipantSummaryAllRows(state) ==
  LET measured == state.trialSummaries
      totalErrorsMeasured == reduceSum(measured, "error_count_this_trial")
  IN [participant_id |-> state.participantId,
      participant_number |-> state.participantNumber,
      assigned_order |-> orderToLabel(state.assignedOrder),
      total_trials_including_practice |-> Len(state.trialSummaries),
      total_measured_trials |-> Len(measured),
      total_errors_measured |-> totalErrorsMeasured,
      mean_reaction_time_ms_measured |->
        IF Len(measured) > 0
        THEN mathRoundQuotient(reduceSum(measured, "reaction_time_ms"), Len(measured))
        ELSE 0,
      completed_at_iso |-> IF state.completedAtIso = "undefined" THEN ""
                           ELSE state.completedAtIso]

\* export function buildParticipantSummary (study_operator and the
\* demographic fields, copied from the session, are left out)
buildParticipantSummary(state) ==
  LET measured == SelectSeq(state.trialSummaries, LAMBDA trial : trial.included_in_analysis)
      totalErrorsMeasured == reduceSum(measured, "error_count_this_trial")
  IN [participant_id |-> state.participantId,
      participant_number |-> state.participantNumber,
      assigned_order |-> orderToLabel(state.assignedOrder),
      total_trials_including_practice |-> Len(state.trialSummaries),
      total_measured_trials |-> Len(measured),
      total_errors_measured |-> totalErrorsMeasured,
      mean_reaction_time_ms_measured |->
        IF Len(measured) > 0
        THEN mathRoundQuotient(reduceSum(measured, "reaction_time_ms"), Len(measured))
        ELSE 0,
      completed_at_iso |-> IF state.completedAtIso = "undefined" THEN ""
                           ELSE state.completedAtIso]

\* const participantSummary = buildParticipantSummary(session); the exports
\* call it with the same session
BuildParticipantSummary ==
  /\ session # Undefined
  /\ participantSummary = <<>>
  /\ participantSummary' = buildParticipantSummary(session)
  /\ UNCHANGED <<callVars, orderVars, sampleVars, appVars, balanceVars, seedVars, drawVars>>

\* A run from the landing screen into the first block, until the summary is
\* built.
SummaryNext ==
  \/ /\ participantSummary = <<>>
     /\ \/ \E drawn \in SummaryParticipants : created = 0 /\ StartFromConsent(drawn)
        \/ \E drawn \in SummaryParticipants :
             created = 0 /\ StartDevMode(drawn, CONDITIONS[MaxDevCondition])
        \/ SetConsentChecked
        \/ SetVisionConfirmed
        \/ SubmitConsent
        \/ SubmitDemographics
        \/ StartBlock
        \/ AnimationFrame
        \/ \E k \in 1..8, reactionTimeMs \in ReactionTimes :
             /\ session # Undefined
             /\ session.currentTrialIndex < MaxSummaryTrials
             /\ HandleTimedClick(itemId(k), reactionTimeMs)
        \/ ContinueToMeasuredTrials
  \/ BuildParticipantSummary

SpecSummary == Init /\ [][SummaryNext]_vars

(***************************************************************************)
(* Claims about the participant summary, checked under SpecSummary         *)
(***************************************************************************)
\* The rows of practice trials taken out of a session.
withoutPractice(state) ==
  [state EXCEPT !.trialSummaries = SelectSeq(@, LAMBDA row : ~row.is_practice)]

\* C15: practice trials are excluded from analysis.  Every trial summary row
\* of the session has included_in_analysis = ~is_practice, and the summary
\* buildParticipantSummary returns has total_measured_trials,
\* total_errors_measured and the mean reaction time of the rows that are not
\* practice rows: it is the count, the sum of the error counts and the
\* rounded mean of the reaction times of those rows, and it is what the
\* session without its practice rows gives.
C15_PracticeExcluded ==
  /\ session # Undefined =>
       \A i \in 1..Len(session.trialSummaries) :
         session.trialSummaries[i].included_in_analysis = ~session.trialSummaries[i].is_practice
  /\ participantSummary # <<>> =>
       LET rows == withoutPractice(session).trialSummaries
           alone == buildParticipantSummary(withoutPractice(session))
       IN /\ participantSummary.total_measured_trials = Len(rows)
          /\ participantSummary.total_errors_measured = reduceSum(rows, "error_count_this_trial")
          /\ participantSummary.mean_reaction_time_ms_measured =
               IF rows = <<>> THEN 0
               ELSE mathRoundQuotient(reduceSum(rows, "reaction_time_ms"), Len(rows))
          /\ participantSummary.total_measured_trials = alone.total_measured_trials
          /\ participantSummary.total_errors_measured = alone.total_errors_measured
          /\ participantSummary.mean_reaction_time_ms_measured =
               alone.mean_reaction_time_ms_measured

\* A summary of three practice rows, each with an error and a reaction time of
\* 1 ms, and two measured rows without errors and with 0 ms and 1 ms: two
\* measured trials, no measured error, a mean of 0.5 ms rounded to 1.
C15_Witness ==
  /\ participantSummary # <<>>
  /\ Len(session.trialSummaries) = 5
  /\ \A i \in 1..3 : /\ session.trialSummaries[i].is_practice
                     /\ session.trialSummaries[i].error_count_this_trial = 1
                     /\ session.trialSummaries[i].reaction_time_ms = 1
  /\ \A i \in 4..5 : /\ ~session.trialSummaries[i].is_practice
                     /\ session.trialSummaries[i].error_count_this_trial = 0
  /\ session.trialSummaries[4].reaction_time_ms = 0
  /\ session.trialSummaries[5].reaction_time_ms = 1
  /\ participantSummary.total_trials_including_practice = 5
  /\ participantSummary.total_measured_trials = 2
  /\ participantSummary.total_errors_measured = 0
  /\ participantSummary.mean_reaction_time_ms_measured = 1

(***************************************************************************)
(* SpecResume: one session from the landing screen to the break after its  *)
(* first block, with wrong clicks and clock readings in its first trials,  *)
(* reloads of the page, resumes and withdrawals.                           *)
(***************************************************************************)
MaxReloads == 1

MaxErrorTrials == 2

\* The trials in which this run takes wrong clicks and reads the clock.
InErrorTrials == session # Undefined /\ Len(session.trialSummaries) < MaxErrorTrials

ResumeNext ==
  \/ \E drawn \in AppParticipants : created = 0 /\ StartFromConsent(drawn)
  \/ ResumeSavedSession
  \/ SetConsentChecked
  \/ SetVisionConfirmed
  \/ SubmitConsent
  \/ SubmitDemographics
  \/ StartBlock
  \/ \E k \in 1..8, reactionTimeMs \in ReactionTimes :
       /\ currentTrialOf(session) # Undefined
       /\ ~InErrorTrials => /\ itemId(k) = currentTrialOf(session).correctItemId
                            /\ reactionTimeMs = 0
       /\ HandleTimedClick(itemId(k), reactionTimeMs)
  \/ ContinueToMeasuredTrials
  \/ SubmitLikert
  \/ HandleWithdraw
  \/ AnimationFrame
  \/ reloaded < MaxReloads /\ ReloadPage

SpecResume == Init /\ [][ResumeNext]_vars

(***************************************************************************)
(* Claims about saving and resuming, checked under SpecResume              *)
(***************************************************************************)
\* What a resume is to restore.
progress(state) ==
  <<state.stage, state.currentBlockIndex, state.currentTrialIndex, state.currentTrialErrors,
    state.trialSummaries, state.rawEvents, state.blockLikerts>>

\* The session of the tab is the one local storage holds, and a session read
\* back from the item just written is the session.
Autosaved ==
  session # Undefined =>
    /\ localStorage # Undefined
    /\ loadSession(localStorage) = session
    /\ loadSession(saveSession(session)) = session

\* The session the landing screen offers to resume is the stored one.
OfferIsStored ==
  (session = Undefined /\ resumeCandidate # Undefined /\ mode = "landing") =>
    loadSession(localStorage) = resumeCandidate

\* A reload of a page with a session that is not complete offers that
\* session.
ReloadKeeps ==
  (reloaded' # reloaded /\ session # Undefined /\ session.stage # "complete") =>
    /\ resumeCandidate' # Undefined
    /\ progress(resumeCandidate') = progress(session)

\* "Resume saved session" makes the offered session the session of the tab.
ResumeRestores ==
  (session = Undefined /\ session' # Undefined /\ created' = created) =>
    progress(session') = progress(resumeCandidate)

\* C16: the session auto-saves and can resume after a reload.  In every state
\* with a session, local storage holds that session, and loadSession of what
\* saveSession writes is the session; a reload of a page with a session that
\* is not complete offers a session with the same stage, block index, trial
\* index, current error count, trial summaries, raw events and ratings, and
\* resuming makes it the session of the tab.
C16_AutosaveAndResume ==
  /\ [](Autosaved /\ OfferIsStored)
  /\ [][ReloadKeeps /\ ResumeRestores]_vars

\* A session resumed after a reload in the second trial, with a wrong click
\* counted in that trial and the summary row of the first trial, with its
\* error and its reaction time.
C16_Witness ==
  /\ reloaded = 1
  /\ session # Undefined
  /\ session = resumeCandidate
  /\ loadSession(localStorage) = session
  /\ session.stage = "trial"
  /\ session.currentTrialIndex = 1
  /\ session.currentTrialErrors = 1
  /\ Len(session.trialSummaries) = 1
  /\ session.trialSummaries[1].error_count_this_trial = 1
  /\ session.trialSummaries[1].reaction_time_ms = 1
  /\ session.demographics # "undefined"
  /\ session.completedAtIso = "undefined"

(***************************************************************************)
(* Claims about the prompts and the items of a plan, checked under         *)
(* SpecPlan                                                                *)
(***************************************************************************)
\* The items of a trial with the id correctItemId.
correctItems(trial) ==
  {trial.items[i] : i \in {i \in 1..Len(trial.items) : trial.items[i].id = trial.correctItemId}}

\* The prompt of a trial as the claim words it, for the item it is to name.
\* The pieces of the template string are the elements of the tuple.
promptFor(condition, item) ==
  CASE condition = "color" -> <<"Select the", item.colorName, "circle">>
    [] condition = "shape" -> <<"Select the", item.shapeName>>
    [] OTHER -> <<"Select the", item.colorName, item.shapeName>>

\* C17: the prompt of every trial names its correct item.  In a color trial
\* it is 'Select the <color> circle', in a shape trial 'Select the <shape>',
\* in a combined trial 'Select the <color> <shape>', with the colour and the
\* shape of the item whose id is correctItemId.
C17_PromptNamesCorrectItem ==
  Returned =>
    \A k \in 1..Len(callResult.trials) :
      LET trial == callResult.trials[k]
      IN /\ correctItems(trial) # {}
         /\ \A item \in correctItems(trial) :
              trial.promptText = promptFor(callArgs.condition, item)

\* A returned plan of each kind is told apart by its prompts: here a combined
\* plan of 13 trials with a prompt for a red shape that is not a circle.
C17_Witness ==
  /\ Returned
  /\ callArgs.condition = "combined"
  /\ Len(callResult.trials) = 13
  /\ \E k \in 1..13 :
       /\ callResult.trials[k].promptText[2] = "red"
       /\ callResult.trials[k].promptText[3] # "circle"
       /\ \E item \in correctItems(callResult.trials[k]) :
            item.colorName = "red" /\ item.shapeName = callResult.trials[k].promptText[3]

\* Each name of the list is the value of the field in exactly one of the items.
eachOnce(items, field, names) ==
  \A n \in 1..Len(names) :
    Cardinality({i \in 1..Len(items) : items[i][field] = names[n]}) = 1

\* C18: in a color trial all 8 items are circles, each of the 8 colours is
\* the colour of exactly one item, and the target shape is circle; in a shape
\* trial all 8 items are black, each of the 8 shapes is the shape of exactly
\* one item, and the target colour is black.
C18_SingleFeatureItems ==
  Returned =>
    \A k \in 1..Len(callResult.trials) :
      LET trial == callResult.trials[k]
      IN /\ callArgs.condition = "color" =>
              /\ Len(trial.items) = 8
              /\ \A i \in 1..Len(trial.items) : trial.items[i].shapeName = "circle"
              /\ eachOnce(trial.items, "colorName", COLORS)
              /\ trial.targetShape = "circle"
         /\ callArgs.condition = "shape" =>
              /\ Len(trial.items) = 8
              /\ \A i \in 1..Len(trial.items) : trial.items[i].colorName = "black"
              /\ eachOnce(trial.items, "shapeName", SHAPES)
              /\ trial.targetColor = "black"

\* A shape plan of 13 trials with a trial whose first item is a black cross
\* and whose target is another shape.
C18_Witness ==
  /\ Returned
  /\ callArgs.condition = "shape"
  /\ Len(callResult.trials) = 13
  /\ \E k \in 1..13 :
       /\ callResult.trials[k].items[1].shapeName = "cross"
       /\ callResult.trials[k].items[1].colorName = "black"
       /\ callResult.trials[k].targetShape # "cross"
       /\ callResult.trials[k].targetColor = "black"

(***************************************************************************)
(* experiment.ts: assertBalancedTargets.  A result is a JavaScript number: *)
(* an integer, or the -Infinity that Math.max() - Math.min() of no values  *)
(* gives.                                                                  *)
(***************************************************************************)
finiteNumber(n) == [finite |-> n]

NegativeInfinity == [infinite |-> "-Infinity"]

\* The Map the loop fills for a field of the trials: for each value of the
\* field, the number of trials that have it.
countsBy(measured, field) ==
  [name \in {measured[i][field] : i \in 1..Len(measured)} |->
     Cardinality({i \in 1..Len(measured) : measured[i][field] = name})]

\* Math.max(...values) - Math.min(...values) for the values of a Map.
maxMinusMin(countMap) ==
  LET values == {countMap[name] : name \in DOMAIN countMap}
  IN IF values = {} THEN NegativeInfinity
     ELSE finiteNumber((CHOOSE v \in values : \A w \in values : v >= w) -
                       (CHOOSE v \in values : \A w \in values : v <= w))

\* Faulty variant of assertBalancedTargets: the practice trials are counted.
assertBalancedTargetsAllTrials(trials) ==
  LET measured == trials
  IN [maxColorDiff |-> maxMinusMin(countsBy(measured, "targetColor")),
      maxShapeDiff |-> maxMinusMin(countsBy(measured, "targetShape"))]

assertBalancedTargets(trials) ==
  LET measured == SelectSeq(trials, LAMBDA trial : ~trial.isPractice)
  IN [maxColorDiff |-> maxMinusMin(countsBy(measured, "targetColor")),
      maxShapeDiff |-> maxMinusMin(countsBy(measured, "targetShape"))]

(***************************************************************************)
(* SpecBalance: a caller takes the trials of a plan, adds, removes and     *)
(* changes practice trials, and calls assertBalancedTargets                *)
(***************************************************************************)
MaxBalanceParticipant == 1

MaxBalanceCount == 1

MaxPracticeTargets == 2

MaxBalancePractice == 3

BalanceParticipants == {123456 + k : k \in 0..MaxBalanceParticipant}

\* practiceTrials and measuredTrials of the plans: the defaults and the small
\* counts.
BalanceCounts ==
  {<<DEFAULT_PRACTICE_TRIALS, DEFAULT_MEASURED_TRIALS>>} \cup
  {<<p, m>> : p \in 0..MaxBalanceCount, m \in 0..MaxBalanceCount}

BalancePlans ==
  {generateBlockPlan(planArgs(n, 0, 1, CONDITIONS[c], pm[1], pm[2])) :
     n \in BalanceParticipants, c \in 1..Len(CONDITIONS), pm \in BalanceCounts}

\* A practice trial a caller makes up, by the fields assertBalancedTargets
\* reads.
practiceTrial(targetColor, targetShape) ==
  [isPractice |-> TRUE, targetColor |-> targetColor, targetShape |-> targetShape]

PracticeColors == {COLORS[i] : i \in 1..MaxPracticeTargets}

PracticeShapes == {SHAPES[i] : i \in 1..MaxPracticeTargets}

BalanceInit ==
  /\ balanceTrials \in {plan.trials : plan \in {p \in BalancePlans : ~isThrown(p)}}
  /\ balance = <<>>
  /\ CallIdle
  /\ OrderIdle
  /\ SampleIdle
  /\ AppIdle
  /\ ExportIdle
  /\ SeedIdle
  /\ DrawIdle

AddPractice(targetColor, targetShape) ==
  /\ balance = <<>>
  /\ countPractice(balanceTrials) < MaxBalancePractice
  /\ balanceTrials' = <<practiceTrial(targetColor, targetShape)>> \o balanceTrials
  /\ UNCHANGED balance
  /\ UNCHANGED <<callVars, orderVars, sampleVars, appVars, exportVars, seedVars, drawVars>>

RemovePractice(i) ==
  /\ balance = <<>>
  /\ i \in 1..Len(balanceTrials)
  /\ balanceTrials[i].isPractice
  /\ balanceTrials' = SubSeq(balanceTrials, 1, i - 1) \o
                      SubSeq(balanceTrials, i + 1, Len(balanceTrials))
  /\ UNCHANGED balance
  /\ UNCHANGED <<callVars, orderVars, sampleVars, appVars, exportVars, seedVars, drawVars>>

ChangePractice(i, targetColor, targetShape) ==
  /\ balance = <<>>
  /\ i \in 1..Len(balanceTrials)
  /\ balanceTrials[i].isPractice
  /\ balanceTrials' = [balanceTrials EXCEPT ![i].targetColor = targetColor,
                                            ![i].targetShape = targetShape]
  /\ UNCHANGED balance
  /\ UNCHANGED <<callVars, orderVars, sampleVars, appVars, exportVars, seedVars, drawVars>>

\* const balance = assertBalancedTargets(plan.trials)
AssertBalancedTargets ==
  /\ balance = <<>>
  /\ balance' = assertBalancedTargets(balanceTrials)
  /\ UNCHANGED balanceTrials
  /\ UNCHANGED <<callVars, orderVars, sampleVars, appVars, exportVars, seedVars, drawVars>>

BalanceNext ==
  \/ \E targetColor \in PracticeColors, targetShape \in PracticeShapes :
       AddPractice(targetColor, targetShape)
  \/ \E i \in 1..Len(balanceTrials) : RemovePractice(i)
  \/ \E i \in 1..Len(balanceTrials), targetColor \in PracticeColors,
        targetShape \in PracticeShapes : ChangePractice(i, targetColor, targetShape)
  \/ AssertBalancedTargets

SpecBalance == BalanceInit /\ [][BalanceNext]_vars

(***************************************************************************)
(* Claims about assertBalancedTargets, checked under SpecBalance           *)
(***************************************************************************)
\* The trials that are not practice trials.
measuredOf(trials) == SelectSeq(trials, LAMBDA trial : ~trial.isPractice)

\* d is the largest count minus the smallest count, over the values of the
\* field that are a target of a measured trial, of the measured trials with
\* that target.
isSpread(d, trials, field) ==
  LET names == {measuredOf(trials)[k][field] : k \in 1..Len(measuredOf(trials))}
      count(name) == measuredCount([trials |-> trials], field, name)
  IN /\ \E a, b \in names : count(a) - count(b) = d
     /\ \A a, b \in names : count(a) - count(b) <= d

\* What was returned is right for the trials passed.
BalanceOfMeasured ==
  balance # <<>> =>
    /\ balance = assertBalancedTargets(measuredOf(balanceTrials))
    /\ measuredOf(balanceTrials) # <<>> =>
         /\ "finite" \in DOMAIN balance.maxColorDiff
         /\ "finite" \in DOMAIN balance.maxShapeDiff
         /\ isSpread(balance.maxColorDiff.finite, balanceTrials, "targetColor")
         /\ isSpread(balance.maxShapeDiff.finite, balanceTrials, "targetShape")

\* C19: assertBalancedTargets considers only the trials that are not practice
\* trials.  maxColorDiff and maxShapeDiff are the largest minus the smallest
\* of the numbers of measured trials per target colour and per target shape,
\* and a step that adds, removes or changes a practice trial leaves the
\* result of the function as it was.
C19_BalanceIgnoresPractice ==
  /\ []BalanceOfMeasured
  /\ [][balanceTrials' # balanceTrials =>
          assertBalancedTargets(balanceTrials') = assertBalancedTargets(balanceTrials)]_vars

\* The result for ten measured combined trials and three practice trials that
\* were all changed to the target red circle: the counts of the measured
\* trials differ by 1.
C19_Witness ==
  /\ balance # <<>>
  /\ Len(measuredOf(balanceTrials)) = 10
  /\ countPractice(balanceTrials) = 3
  /\ \A i \in 1..Len(balanceTrials) :
       balanceTrials[i].isPractice =>
         balanceTrials[i].targetColor = "red" /\ balanceTrials[i].targetShape = "circle"
  /\ \E i \in 1..Len(balanceTrials) :
       ~balanceTrials[i].isPractice /\ balanceTrials[i].targetShape # "circle"
  /\ balance.maxColorDiff = finiteNumber(1)
  /\ balance.maxShapeDiff = finiteNumber(1)

(***************************************************************************)
(* SpecSeed: a caller of seededRandom with an integer seed, and the first  *)
(* calls of the closure it returns                                         *)
(***************************************************************************)
MaxSeedOffset == 2

MaxDraws == 4

\* The seeds without their sign: 0, the modulus and twice the modulus, each
\* with the numbers next to it, and per-trial seeds of the ends of
\* createParticipantNumber's range.
SeedMagnitudes ==
  {Wide(0, k) : k \in 0..MaxSeedOffset}
  \cup {Wide(PrngModulus \div TrialSeedScale, (PrngModulus % TrialSeedScale) + k) :
          k \in (0 - MaxSeedOffset)..MaxSeedOffset}
  \cup {Wide(2 * (PrngModulus \div TrialSeedScale), (2 * (PrngModulus % TrialSeedScale)) + k) :
          k \in (0 - MaxSeedOffset)..MaxSeedOffset}
  \cup {trialSeed([participantNumber |-> n, blockIndex |-> b], b) :
          n \in {100000, 999999}, b \in {0, MaxBlockIndex}}

Seeds == SeedMagnitudes \cup {Wide(0 - w.hi, 0 - w.lo) : w \in SeedMagnitudes}

\* return (state - 1) / 2147483646: the quotient by its two terms.
returnedValue(state) == [numerator |-> state - 1, denominator |-> PrngModulus - 1]

SeedInit ==
  /\ randSeed \in Seeds
  /\ randCell = Undefined
  /\ randValue = <<>>
  /\ CallIdle
  /\ OrderIdle
  /\ SampleIdle
  /\ AppIdle
  /\ ExportIdle
  /\ BalanceIdle
  /\ DrawIdle

\* const rand = seededRandom(seed)
CallSeededRandom ==
  /\ randCell = Undefined
  /\ randCell' = seededRandom(randSeed)
  /\ UNCHANGED <<randSeed, randValue>>
  /\ UNCHANGED <<callVars, orderVars, sampleVars, appVars, exportVars, balanceVars, drawVars>>

\* rand()
CallRand ==
  /\ randCell # Undefined
  /\ randCell.draws < MaxDraws
  /\ randCell' = randStep(randCell)
  /\ randValue' = returnedValue(nextState(randCell.state))
  /\ UNCHANGED randSeed
  /\ UNCHANGED <<callVars, orderVars, sampleVars, appVars, exportVars, balanceVars, drawVars>>

SeedNext == CallSeededRandom \/ CallRand

SpecSeed == SeedInit /\ [][SeedNext]_vars

(***************************************************************************)
(* Claims about seededRandom, checked under SpecSeed                       *)
(***************************************************************************)
\* The state of the closure is in [1, 2147483646].
StateInRange == randCell.state >= 1 /\ randCell.state <= PrngModulus - 1

\* The value returned is in [0, 1).
ValueInRange == randValue.numerator >= 0 /\ randValue.numerator < randValue.denominator

\* C20 as stated: for every integer seed the starting state is normalized
\* into [1, 2147483646], every later state stays in that range, and every
\* value returned lies in [0, 1).  The seed -2147483646 has the remainder
\* -2147483646, to which seededRandom adds 2147483646: its state is 0 and
\* stays 0, and every value returned is -1 / 2147483646.
C20_EverySeedInRange ==
  /\ randCell # Undefined => StateInRange
  /\ randValue # <<>> => ValueInRange

(***************************************************************************)
(* SpecDraws: a caller of shuffle, or of buildBalancedIndices, with a rand *)
(* that seededRandom made from a seed that is not negative                 *)
(***************************************************************************)
MaxShuffleLength == 4

MaxShuffleValue == 1

MaxCategories == 3

MaxSamples == 5

RECURSIVE arraysOf(_)
\* The arrays of a length over the values 0 .. MaxShuffleValue.
arraysOf(length) ==
  IF length = 0 THEN {<<>>}
  ELSE {Append(array, v) : array \in arraysOf(length - 1), v \in 0..MaxShuffleValue}

\* The arrays passed to shuffle: arrays with repeated values, and the index
\* ranges buildBalancedIndices and the item builders pass.
ShuffleArrays ==
  UNION {arraysOf(length) : length \in 0..MaxShuffleLength}
  \cup {indexRange(length) : length \in 0..Len(COLORS)}

\* length and count of a call of buildBalancedIndices: those of
\* generateBlockPlan and of the tests, and the small ones from -1 on.
IndexCounts ==
  {<<Len(COLORS), DEFAULT_PRACTICE_TRIALS>>, <<Len(COLORS), DEFAULT_MEASURED_TRIALS>>,
   <<Len(SHAPES), 2 * Len(SHAPES)>>}
  \cup {<<length, count>> : length \in (0 - 1)..MaxCategories, count \in (0 - 1)..MaxSamples}

DrawInputs ==
  {[call |-> "shuffle", array |-> array, seed |-> w] :
     array \in ShuffleArrays, w \in SeedMagnitudes}
  \cup {[call |-> "buildBalancedIndices", length |-> lc[1], count |-> lc[2], seed |-> w] :
          lc \in IndexCounts, w \in SeedMagnitudes}

DrawsInit ==
  /\ drawArgs \in DrawInputs
  /\ drawArray = IF drawArgs.call = "shuffle" THEN drawArgs.array ELSE <<>>
  /\ drawResult = <<>>
  /\ drawRand = seededRandom(drawArgs.seed)
  /\ CallIdle
  /\ OrderIdle
  /\ SampleIdle
  /\ AppIdle
  /\ ExportIdle
  /\ BalanceIdle
  /\ SeedIdle

\* shuffle(array, rand)
Shuffle ==
  /\ drawArgs.call = "shuffle"
  /\ drawResult = <<>>
  /\ drawResult' = [value |-> shuffle(drawArray, drawRand).array]
  /\ drawRand' = shuffle(drawArray, drawRand).rand
  /\ drawArray' = shuffleArgument(drawArray, drawRand)
  /\ UNCHANGED drawArgs
  /\ UNCHANGED <<callVars, orderVars, sampleVars, appVars, exportVars, balanceVars, seedVars>>

\* buildBalancedIndices(length, count, rand)
BuildBalancedIndices ==
  /\ drawArgs.call = "buildBalancedIndices"
  /\ drawResult = <<>>
  /\ drawResult' = [value |-> buildBalancedIndices(drawArgs.length, drawArgs.count, drawRand).array]
  /\ drawRand' = buildBalancedIndices(drawArgs.length, drawArgs.count, drawRand).rand
  /\ UNCHANGED <<drawArgs, drawArray>>
  /\ UNCHANGED <<callVars, orderVars, sampleVars, appVars, exportVars, balanceVars, seedVars>>

DrawsNext == Shuffle \/ BuildBalancedIndices

SpecDraws == DrawsInit /\ [][DrawsNext]_vars

(***************************************************************************)
(* Claims about shuffle and buildBalancedIndices, checked under SpecDraws  *)
(***************************************************************************)
\* The call of the run returned.
ShuffleReturned == drawArgs.call = "shuffle" /\ drawResult # <<>>

IndicesReturned == drawArgs.call = "buildBalancedIndices" /\ drawResult # <<>>

\* How often a value occurs in an array.
occurrences(array, v) == Cardinality({i \in 1..Len(array) : array[i] = v})

\* C21: for length > 0 and count > 0 buildBalancedIndices returns exactly
\* count indices, each in 0 .. length - 1; every category occurs
\* floor(count / length) times or once more, and exactly count mod length
\* categories occur once more; so the counts of two categories differ by at
\* most 1 and are all equal when length divides count.
C21_BalancedIndices ==
  (IndicesReturned /\ drawArgs.length > 0 /\ drawArgs.count > 0) =>
    LET indices == drawResult.value
        categories == 0..(drawArgs.length - 1)
        base == drawArgs.count \div drawArgs.length
    IN /\ Len(indices) = drawArgs.count
       /\ \A i \in 1..Len(indices) : indices[i] \in categories
       /\ \A c \in categories : occurrences(indices, c) \in {base, base + 1}
       /\ Cardinality({c \in categories : occurrences(indices, c) = base + 1}) =
            drawArgs.count % drawArgs.length
       /\ \A c, d \in categories : occurrences(indices, c) - occurrences(indices, d) <= 1
       /\ drawArgs.count % drawArgs.length = 0 =>
            \A c, d \in categories : occurrences(indices, c) = occurrences(indices, d)

\* Ten indices over eight categories that are not in the order the loops
\* push them: two categories occur twice.
C21_Witness ==
  /\ IndicesReturned
  /\ drawArgs.length = 8
  /\ drawArgs.count = 10
  /\ Len(drawResult.value) = 10
  /\ Cardinality({c \in 0..7 : occurrences(drawResult.value, c) = 2}) = 2
  /\ drawResult.value[1] # 0

\* C25: shuffle returns a sequence of the length of the array passed, with
\* every value as often as the array has it, and the array passed is after the
\* call what it was before.
C25_ShuffleIsPermutation ==
  ShuffleReturned =>
    /\ Len(drawResult.value) = Len(drawArgs.array)
    /\ \A v \in 0..Len(COLORS) :
         occurrences(drawResult.value, v) = occurrences(drawArgs.array, v)
    /\ drawArray = drawArgs.array

\* An array with a repeated value came back in another order, and the
\* caller's array is the one passed.
C25_Witness ==
  /\ ShuffleReturned
  /\ drawArgs.array = <<0, 0, 1, 1>>
  /\ drawResult.value # drawArgs.array
  /\ drawArray = <<0, 0, 1, 1>>

RECURSIVE nextStateTimes(_, _)
\* The state of a closure after n calls.
nextStateTimes(state, n) ==
  IF n <= 0 THEN state ELSE nextState(nextStateTimes(state, n - 1))

\* The number of steps of the loop of shuffle for an array.
shuffleSteps(array) == IF Len(array) = 0 THEN 0 ELSE Len(array) - 1

\* C26 as stated: shuffle consumes exactly length - 1 draws of rand, whatever
\* the length of the array.
C26_DrawsAreLengthMinusOne ==
  ShuffleReturned => drawRand.draws = Len(drawArgs.array) - 1

\* C26: shuffle consumes exactly length - 1 draws of rand for an array that is
\* not empty and none for the empty array, one per step i from the last index
\* down to index 1; the step of the last index draws j = floor(rand() * length)
\* and swaps the last position with position j, which no later step touches.
C26_DrawsPerStep ==
  ShuffleReturned =>
    LET array == drawArgs.array
        before == seededRandom(drawArgs.seed)
    IN /\ drawRand.draws = shuffleSteps(array)
       /\ drawRand.state = nextStateTimes(before.state, shuffleSteps(array))
       /\ Len(array) >= 2 =>
            drawResult.value[Len(array)] =
              array[floorScaled(nextState(before.state), Len(array)) + 1]

\* Eight indices were shuffled with seven draws.
C26_Witness ==
  /\ ShuffleReturned
  /\ drawArgs.array = indexRange(8)
  /\ drawRand.draws = 7
  /\ drawResult.value[8] # 7

\* C27: whenever count <= 0 or length <= 0, buildBalancedIndices returns the
\* empty array and rand is as it was: no call of it was made.
C27_DegenerateInputs ==
  (IndicesReturned /\ (drawArgs.count <= 0 \/ drawArgs.length <= 0)) =>
    /\ drawResult.value = <<>>
    /\ drawRand.draws = 0
    /\ drawRand = seededRandom(drawArgs.seed)

\* No categories and five samples asked for: the call returned.
C27_Witness ==
  /\ IndicesReturned
  /\ drawArgs.length = 0
  /\ drawArgs.count = 5
  /\ drawResult.value = <<>>

(***************************************************************************)
(* Claims about the items of combined trials and about the seeds, checked  *)
(* under SpecPlan                                                          *)
(***************************************************************************)
\* The positions of the items of a trial that carry the target pair.
targetPositions(trial) ==
  {i \in 1..Len(trial.items) :
     trial.items[i].colorName = trial.targetColor /\ trial.items[i].shapeName = trial.targetShape}

\* C22: in every trial of a combined plan each of the 8 colours and each of
\* the 8 shapes is on exactly one of the 8 items; one item carries the target
\* pair, no other item carries the target colour or the target shape, and no
\* two items share a colour or a shape.
C22_CombinedItems ==
  (Returned /\ callArgs.condition = "combined") =>
    \A k \in 1..Len(callResult.trials) :
      LET trial == callResult.trials[k]
          items == trial.items
      IN /\ Len(items) = 8
         /\ eachOnce(items, "colorName", COLORS)
         /\ eachOnce(items, "shapeName", SHAPES)
         /\ Cardinality(targetPositions(trial)) = 1
         /\ \A i \in 1..Len(items) :
              i \notin targetPositions(trial) =>
                /\ items[i].colorName # trial.targetColor
                /\ items[i].shapeName # trial.targetShape
         /\ \A i, j \in 1..Len(items) :
              i # j => /\ items[i].colorName # items[j].colorName
                       /\ items[i].shapeName # items[j].shapeName

\* A combined plan of 19 trials with a trial whose target pair is on the
\* last item and whose first item has neither the target colour nor the
\* target shape.
C22_Witness ==
  /\ Returned
  /\ callArgs.condition = "combined"
  /\ Len(callResult.trials) = 19
  /\ \E k \in 1..19 :
       /\ targetPositions(callResult.trials[k]) = {8}
       /\ callResult.trials[k].items[1].colorName # callResult.trials[k].targetColor
       /\ callResult.trials[k].items[1].shapeName # callResult.trials[k].targetShape

\* A seed with the low limb below TrialSeedScale (seeds here are not negative).
normalised(w) == Wide(w.hi + (w.lo \div TrialSeedScale), w.lo % TrialSeedScale)

\* Two seeds are the same number.
sameSeed(a, b) == normalised(a) = normalised(b)

\* The source indices t of the loop of generateBlockPlan.
trialPositions(args) == 0..(args.practiceTrials + args.measuredTrials - 1)

seedsDistinct(args) ==
  /\ \A t \in trialPositions(args) : ~sameSeed(trialSeed(args, t), blockSeed(args))
  /\ \A t, u \in trialPositions(args) :
       t # u => ~sameSeed(trialSeed(args, t), trialSeed(args, u))

\* C23: for every block generated by generateBlockPlan, the seed of each trial
\* position differs from the block seed and from the seed of every other
\* trial position of the block.
C23_SeedsDistinct == Returned => seedsDistinct(callArgs)

\* The same for the participant numbers createParticipantNumber returns.
C23_SeedsDistinctForCreatedNumbers ==
  (Returned /\ callArgs.participantNumber >= 100000) => seedsDistinct(callArgs)

\* A block of 19 trials was generated for a created participant number.
C23_CreatedNumberReached ==
  /\ Returned
  /\ callArgs.participantNumber >= 100000
  /\ Len(callResult.trials) = 19

\* The draws one call of buildBalancedIndices makes: those of the shuffle of
\* the categories when there is a remainder, and those of the final shuffle.
drawsOfIndices(length, count) ==
  IF count <= 0 \/ length <= 0 THEN 0
  ELSE (IF count % length > 0 THEN length - 1 ELSE 0) + (count - 1)

\* The target names of the plan of the same arguments in another condition
\* agree with those of this plan wherever both take them from the sequences.
sameTargetsIn(condition) ==
  LET other == generateBlockPlan([callArgs EXCEPT !.condition = condition])
  IN \A k \in 1..Len(callResult.trials) :
       /\ (callArgs.condition # "shape" /\ condition # "shape") =>
            other.trials[k].targetColor = callResult.trials[k].targetColor
       /\ (callArgs.condition # "color" /\ condition # "color") =>
            other.trials[k].targetShape = callResult.trials[k].targetShape

\* C24: the generator seeded with the block seed is consumed by the four
\* calls of buildBalancedIndices in the order practice colour, practice shape,
\* measured colour, measured shape, each with all its draws before the next
\* begins, and by nothing else: after the call it has made exactly their
\* draws.  The targets of the trials are those sequences, whatever the
\* condition, and the items of a trial are drawn from the generator of the
\* trial's own seed.
C24_BlockGeneratorOrder ==
  Returned =>
    LET rand == seededRandom(blockSeed(callArgs))
        practice == callArgs.practiceTrials
        measured == callArgs.measuredTrials
        practiceColor == buildBalancedIndices(Len(COLORS), practice, rand)
        practiceShape == buildBalancedIndices(Len(SHAPES), practice, practiceColor.rand)
        measuredColor == buildBalancedIndices(Len(COLORS), measured, practiceShape.rand)
        measuredShape == buildBalancedIndices(Len(SHAPES), measured, measuredColor.rand)
        colors == practiceColor.array \o measuredColor.array
        shapes == practiceShape.array \o measuredShape.array
        draws == drawsOfIndices(Len(COLORS), practice) + drawsOfIndices(Len(SHAPES), practice)
                 + drawsOfIndices(Len(COLORS), measured) + drawsOfIndices(Len(SHAPES), measured)
    IN /\ practiceColor.rand.draws = drawsOfIndices(Len(COLORS), practice)
       /\ practiceShape.rand.draws - practiceColor.rand.draws = drawsOfIndices(Len(SHAPES), practice)
       /\ measuredColor.rand.draws - practiceShape.rand.draws = drawsOfIndices(Len(COLORS), measured)
       /\ staleCell.draws = draws
       /\ staleCell = measuredShape.rand
       /\ \A k \in 1..Len(callResult.trials) :
            LET trial == callResult.trials[k]
            IN /\ callArgs.condition # "shape" => trial.targetColor = COLORS[colors[k] + 1]
               /\ callArgs.condition # "color" => trial.targetShape = SHAPES[shapes[k] + 1]
               /\ trial.items =
                    IF callArgs.condition = "color"
                    THEN buildItemsForColorOnlyTrial(trialSeed(callArgs, k - 1))
                    ELSE IF callArgs.condition = "shape"
                    THEN buildItemsForShapeOnlyTrial(trialSeed(callArgs, k - 1))
                    ELSE buildCombinedItemsForTarget(trialSeed(callArgs, k - 1),
                                                     trial.targetColor, trial.targetShape)
       /\ \A c \in 1..Len(CONDITIONS) : sameTargetsIn(CONDITIONS[c])

\* A combined plan of the default counts: the block generator made 50 draws
\* and the targets of the first measured trial are not those of the first
\* practice trial.
C24_Witness ==
  /\ Returned
  /\ callArgs.condition = "combined"
  /\ callArgs.practiceTrials = DEFAULT_PRACTICE_TRIALS
  /\ callArgs.measuredTrials = DEFAULT_MEASURED_TRIALS
  /\ staleCell.draws = 50
  /\ callResult.trials[4].targetColor # callResult.trials[1].targetColor
  /\ callResult.trials[4].targetShape # callResult.trials[1].targetShape

(***************************************************************************)
(* SpecLookup: findItemForTarget, and the loop of generateBlockPlan, with  *)
(* items that do or do not hold the target                                 *)
(***************************************************************************)
MaxLookupItems == 3

\* Grids of the three builders for one seed.
builtItems ==
  {buildItemsForColorOnlyTrial(Wide(0, 1)), buildItemsForShapeOnlyTrial(Wide(0, 1)),
   buildCombinedItemsForTarget(Wide(0, 1), "red", "star")}

\* The items passed: the grids, and their first 0 .. MaxLookupItems items.
LookupItems ==
  builtItems \cup {SubSeq(items, 1, n) : items \in builtItems, n \in 0..MaxLookupItems}

LookupInputs ==
  {[call |-> call, items |-> items, targetColor |-> targetColor,
    targetShape |-> targetShape, condition |-> CONDITIONS[c]] :
     call \in {"findItemForTarget", "generateBlockPlan"}, items \in LookupItems,
     targetColor \in {"red", "blue", "black"}, targetShape \in {"circle", "star"},
     c \in 1..Len(CONDITIONS)}

LookupInit ==
  /\ drawArgs \in LookupInputs
  /\ drawArray = <<>>
  /\ drawResult = <<>>
  /\ drawRand = NoCell
  /\ CallIdle
  /\ OrderIdle
  /\ SampleIdle
  /\ AppIdle
  /\ ExportIdle
  /\ BalanceIdle
  /\ SeedIdle

\* findItemForTarget(items, targetColor, targetShape, condition)
FindItemForTarget ==
  /\ drawArgs.call = "findItemForTarget"
  /\ drawResult = <<>>
  /\ drawResult' = [value |-> findItemForTarget(drawArgs.items, drawArgs.targetColor,
                                                drawArgs.targetShape, drawArgs.condition)]
  /\ UNCHANGED <<drawArgs, drawArray, drawRand>>
  /\ UNCHANGED <<callVars, orderVars, sampleVars, appVars, exportVars, balanceVars, seedVars>>

\* The arguments of the block the items are pushed into.
lookupPlanArgs(condition) == planArgs(123456, 0, 1, condition, 1, 1)

\* generateBlockPlan for a block of two trials: the loop pushes the first
\* trial, and at the second index looks the target up in the items passed.
PlanWithItems ==
  /\ drawArgs.call = "generateBlockPlan"
  /\ drawResult = <<>>
  /\ LET args == lookupPlanArgs(drawArgs.condition)
         built == <<buildTrial(args, balancedTargets(args), 0),
                    pushTrial(args, 1, drawArgs.targetColor, drawArgs.targetShape, drawArgs.items)>>
     IN drawResult' = [value |-> returnPlan(args, built)]
  /\ UNCHANGED <<drawArgs, drawArray, drawRand>>
  /\ UNCHANGED <<callVars, orderVars, sampleVars, appVars, exportVars, balanceVars, seedVars>>

LookupNext == FindItemForTarget \/ PlanWithItems

SpecLookup == LookupInit /\ [][LookupNext]_vars

(***************************************************************************)
(* Claims about a failed lookup, checked under SpecLookup                  *)
(***************************************************************************)
\* No item of the items passed meets the target criterion of the condition.
noItemMatches ==
  \A i \in 1..Len(drawArgs.items) :
    ~matchesTarget(drawArgs.items[i], drawArgs.targetColor, drawArgs.targetShape,
                   drawArgs.condition)

\* C28: whenever no item matches the target criterion of the condition, the
\* lookup throws an Error and returns no item, and generateBlockPlan throws
\* that Error and returns no plan: no trials, not those pushed before either.
C28_TargetNotFoundIsFatal ==
  (drawResult # <<>> /\ noItemMatches) =>
    /\ drawArgs.call = "findItemForTarget" =>
         /\ isThrown(drawResult.value)
         /\ \A i \in 1..Len(drawArgs.items) : drawResult.value # drawArgs.items[i]
    /\ drawArgs.call = "generateBlockPlan" =>
         /\ isThrown(drawResult.value)
         /\ "trials" \notin DOMAIN drawResult.value
         /\ drawResult.value =
              findItemForTarget(drawArgs.items, drawArgs.targetColor, drawArgs.targetShape,
                                drawArgs.condition)

\* A combined lookup among three items, one of them red and none a red
\* star, threw; so did generateBlockPlan after it had pushed one trial.
C28_Witness ==
  /\ drawResult # <<>>
  /\ drawArgs.call = "generateBlockPlan"
  /\ drawArgs.condition = "combined"
  /\ Len(drawArgs.items) = 3
  /\ \E i \in 1..3 : drawArgs.items[i].colorName = drawArgs.targetColor
  /\ noItemMatches
  /\ isThrown(drawResult.value)

\* With an item that matches, the lookup returns the first such item and
\* generateBlockPlan returns a plan of the two trials.
LookupFindsFirstMatch ==
  (drawResult # <<>> /\ ~noItemMatches) =>
    /\ drawArgs.call = "findItemForTarget" =>
         /\ ~isThrown(drawResult.value)
         /\ matchesTarget(drawResult.value, drawArgs.targetColor, drawArgs.targetShape,
                          drawArgs.condition)
    /\ drawArgs.call = "generateBlockPlan" =>
         /\ ~isThrown(drawResult.value)
         /\ Len(drawResult.value.trials) = 2

(***************************************************************************)
(* Claims about withdrawing and about the summary rows, checked under      *)
(* SpecResume                                                              *)
(***************************************************************************)
\* The landing screen offers 'Resume saved session' for the session of a
\* participant.
OffersResumeOf(candidate, participantId) ==
  candidate # Undefined /\ candidate.participantId = participantId

\* C29: once a participant has withdrawn, the session can no longer be
\* resumed: the step of handleWithdraw leaves no saved session in local
\* storage and a landing screen that offers no 'Resume saved session' for the
\* withdrawn session, also when that session had been resumed from storage
\* earlier in the same page load.
C29_WithdrawnNotResumable ==
  [][HandleWithdraw =>
       /\ localStorage' = Undefined
       /\ ~OffersResumeOf(resumeCandidate', session.participantId)]_vars

\* The part of C29 about local storage.
C29_WithdrawClearsStorage == [][HandleWithdraw => localStorage' = Undefined]_vars

\* The part of C29 about the landing screen, for a page load in which the
\* session was started, not resumed.
C29_NoOfferWithoutReload ==
  (reloaded = 0 /\ mode = "withdrawn" /\ session = Undefined) => resumeCandidate = Undefined

\* After a withdraw the session was resumed from the landing screen and is
\* in local storage again.
C29_ResumedAfterWithdraw ==
  /\ mode = "withdrawn"
  /\ session # Undefined
  /\ localStorage # Undefined
  /\ resumeCandidate # Undefined
  /\ session.participantId = resumeCandidate.participantId

\* The item_clicked events of a session with is_correct = false for the
\* trial of a summary row.
wrongClicks(state, row) ==
  {i \in 1..Len(state.rawEvents) :
     /\ state.rawEvents[i].event_type = "item_clicked"
     /\ ~state.rawEvents[i].is_correct
     /\ state.rawEvents[i].block_index = row.block_index
     /\ state.rawEvents[i].trial_index_in_block = row.trial_index_in_block}

\* C30: every trial summary row of the session has clicked_item_id =
\* correct_item_id and is_correct = true, click_count_this_trial =
\* error_count_this_trial + 1, first_click_correct exactly when
\* error_count_this_trial = 0, and error_count_this_trial equal to the number
\* of item_clicked events with is_correct = false logged for its trial.
C30_SummaryRowCounts ==
  session # Undefined =>
    \A i \in 1..Len(session.trialSummaries) :
      LET row == session.trialSummaries[i]
      IN /\ row.clicked_item_id = row.correct_item_id
         /\ row.is_correct = TRUE
         /\ row.click_count_this_trial = row.error_count_this_trial + 1
         /\ row.first_click_correct <=> (row.error_count_this_trial = 0)
         /\ row.error_count_this_trial = Cardinality(wrongClicks(session, row))

\* A session resumed after a reload with two rows: the first trial was
\* completed after a wrong click, the second with its first click.
C30_Witness ==
  /\ session # Undefined
  /\ reloaded = 1
  /\ Len(session.trialSummaries) = 2
  /\ session.trialSummaries[1].error_count_this_trial = 1
  /\ session.trialSummaries[1].click_count_this_trial = 2
  /\ ~session.trialSummaries[1].first_click_correct
  /\ session.trialSummaries[2].error_count_this_trial = 0
  /\ session.trialSummaries[2].first_click_correct

====
